---- MODULE Spec2Model ----
(***************************************************************************)
(* Liveness challenge state machine (FaceLiveness, hysteresis variant) and *)
(* stable-frame capture gates (FaceEnrollment, FaceCapture).               *)
(*                                                                         *)
(* Real numbers are carried exactly: an eye-aspect-ratio or a nose offset  *)
(* is a quotient of two integers, or one of the IEEE values NaN/Infinity   *)
(* that a zero divisor produces.  Thresholds are written in hundredths.    *)
(***************************************************************************)
EXTENDS Integers, Sequences, FiniteSets, TLC

(* ------------------------------------------------------------------ *)
(* Program constants                                                   *)
(* ------------------------------------------------------------------ *)
CHALLENGES == <<"blink", "turn_left", "turn_right">>

\* landmark indices (MediaPipe face mesh); the eye lists are kept as index sets
LEFT_EYE == {33, 160, 158, 133, 153, 144}
RIGHT_EYE == {263, 387, 385, 362, 380, 373}
NOSE == 1
LEFT_CHEEK == 234
RIGHT_CHEEK == 454
MIN_KEYPOINTS == 380

BLINK_CLOSE_THRESHOLD == 22
BLINK_OPEN_THRESHOLD == 26
TURN_THRESHOLD == 15
TURN_HOLD_FRAMES == 12
DETECT_WIDTH == 640
FACE_TOO_FAR_RATIO == 28

REQUIRED_FRAMES == 90
REQUIRED_SAMPLES == 5

(* ------------------------------------------------------------------ *)
(* Bounds of the model                                                 *)
(* ------------------------------------------------------------------ *)
\* history counters (calls of advance, onPassed, gate fires) saturate here
MaxCount == 3
\* the enrollment loop is followed until this many embeddings were pushed
MaxSamples == 7

Min(a, b) == IF a < b THEN a ELSE b
Bump(n) == Min(n + 1, MaxCount)

(* ------------------------------------------------------------------ *)
(* Numbers: quotients with IEEE NaN / Infinity                         *)
(* ------------------------------------------------------------------ *)
NaN == [k |-> "nan", n |-> 0, d |-> 1]
Inf == [k |-> "inf", n |-> 0, d |-> 1]
Quot(n, d) == [k |-> "num", n |-> n, d |-> d]

\* n / d for n >= 0, d >= 0 as JavaScript evaluates it
Div(n, d) == IF d = 0 THEN (IF n = 0 THEN NaN ELSE Inf) ELSE Quot(n, d)

\* (a + b) / 2
Mean2(a, b) ==
  IF a.k = "nan" \/ b.k = "nan" THEN NaN
  ELSE IF a.k = "inf" \/ b.k = "inf" THEN Inf
  ELSE Quot(a.n * b.d + b.n * a.d, 2 * a.d * b.d)

\* x > t/100, x < t/100, x <= 0 (every comparison with NaN is false)
Gt(x, t) == x.k = "inf" \/ (x.k = "num" /\ 100 * x.n > t * x.d)
Lt(x, t) == x.k = "num" /\ 100 * x.n < t * x.d
LeZero(x) == x.k = "num" /\ x.n <= 0
IsNaN(x) == x.k = "nan"

(* ------------------------------------------------------------------ *)
(* Frames delivered by the landmark detector                           *)
(* ------------------------------------------------------------------ *)
\* An eye is given by its two lid separations and its corner distance, the
\* three Euclidean distances eyeAspectRatio takes between its six points.
Eye(v, h) == [v1 |-> v, v2 |-> v, h |-> h]

EyeShut == Eye(0, 50)
EyeClosed == Eye(9, 50)
EyeAtClose == Eye(11, 50)
EyeMid == Eye(12, 50)
EyeAtOpen == Eye(13, 50)
EyeOpen == Eye(15, 50)
EyeInf == Eye(9, 0)
EyeNaN == Eye(0, 0)

EyePairs ==
  {<<e, e>> : e \in {EyeShut, EyeClosed, EyeAtClose, EyeMid, EyeAtOpen, EyeOpen,
                     EyeInf, EyeNaN}}
  \cup {<<EyeOpen, EyeClosed>>, <<EyeInf, EyeClosed>>}

\* x coordinates of nose tip, left cheek and right cheek
Geo(nose, left, right) == [nose |-> nose, left |-> left, right |-> right]
GeoNeutral == Geo(50, 0, 100)
Geos ==
  {Geo(x, 0, 100) : x \in {20, 30, 50, 70, 80}}
  \cup {Geo(50, 100, 100), Geo(50, 100, 0)}

\* bounding-box width of the keypoints: far away (150 px), close enough (200 px)
WidthFar == 100 + 50
WidthNear == 100 + 100

Frame(kp, eyes, geo, bw) ==
  [kp |-> kp, le |-> eyes[1], re |-> eyes[2], geo |-> geo, bw |-> bw]

Frames ==
  {Frame(468, ep, GeoNeutral, WidthNear) : ep \in EyePairs}
  \cup {Frame(468, <<EyeOpen, EyeOpen>>, g, WidthNear) : g \in Geos}
  \cup {Frame(468, <<e, e>>, g, WidthFar) :
          e \in {EyeOpen, EyeClosed}, g \in {GeoNeutral, Geo(80, 0, 100), Geo(20, 0, 100)}}
  \cup {Frame(kp, <<EyeOpen, EyeOpen>>, Geo(80, 0, 100), WidthNear) : kp \in {300, 384, 400}}

\* outcome of one estimateFaces call: it throws, or returns zero or one face
DetectorResults ==
  {[err |-> TRUE, faces |-> <<>>], [err |-> FALSE, faces |-> <<>>]}
  \cup {[err |-> FALSE, faces |-> <<f>>] : f \in Frames}

(* ------------------------------------------------------------------ *)
(* FaceLiveness: pure parts                                            *)
(* ------------------------------------------------------------------ *)
\* points[i] is a point with numeric x and y exactly when i is below the
\* number of keypoints the detector returned
valid(idx, points) == \A i \in idx : i < points.kp

eyeAspectRatio(eye) == Div(eye.v1 + eye.v2, 2 * eye.h)

\* ear of checkBlink: the mean of the two eyes' ratios
Ear(points) == Mean2(eyeAspectRatio(points.le), eyeAspectRatio(points.re))

\* getFaceBounds(points).width < DETECT_WIDTH * FACE_TOO_FAR_RATIO
TooFar(points) == 100 * points.bw < DETECT_WIDTH * FACE_TOO_FAR_RATIO

\* the list in another order, as a list rebuilt by a random sort would be
ActiveOfReordered(index) ==
  IF index < Len(CHALLENGES) THEN <<"turn_left", "blink", "turn_right">>[index + 1]
  ELSE "undefined"

\* CHALLENGES[challengeIndexRef.current]; undefined past the end of the list
ActiveOf(index) == IF index < Len(CHALLENGES) THEN CHALLENGES[index + 1] ELSE "undefined"

\* The two zone tests of checkTurn on offset = (nose.x - left.x) / width, width > 0.
\* 0.45 - TURN_THRESHOLD evaluates to the double 0.30000000000000004, the
\* successor of the double 0.3, so the quotient 0.3 itself passes the test;
\* 0.55 + TURN_THRESHOLD evaluates to 0.7000000000000001 and 0.7 does not pass.
noseTowardImageLeft(g) ==
  100 * (g.nose - g.left) <= (45 - TURN_THRESHOLD) * (g.right - g.left)
noseTowardImageRight(g) ==
  100 * (g.nose - g.left) > (55 + TURN_THRESHOLD) * (g.right - g.left)

Flags(seen, closed, confirmed, adv) ==
  [hasSeenEyesOpen |-> seen, eyeClosed |-> closed, blinkConfirmed |-> confirmed,
   advance |-> adv]

\* checkBlink after its guards: the three threshold tests on ear
BlinkFlagsNoOrder(fl, ear) ==
  LET seen == fl.hasSeenEyesOpen \/ Gt(ear, BLINK_OPEN_THRESHOLD)
      closed == fl.eyeClosed \/ Lt(ear, BLINK_CLOSE_THRESHOLD)
      conf == closed /\ Gt(ear, BLINK_OPEN_THRESHOLD)
  IN  Flags(seen, closed, conf, conf)

BlinkFlagsDipOnly(fl, ear) ==
  LET seen == fl.hasSeenEyesOpen \/ Gt(ear, BLINK_OPEN_THRESHOLD)
      closed == fl.eyeClosed \/ (Lt(ear, BLINK_OPEN_THRESHOLD) /\ seen)
      conf == closed /\ Gt(ear, BLINK_OPEN_THRESHOLD)
  IN  Flags(seen, closed, conf, conf)

BlinkFlagsNoReopen(fl, ear) ==
  LET seen == fl.hasSeenEyesOpen \/ Gt(ear, BLINK_OPEN_THRESHOLD)
      closed == fl.eyeClosed \/ (Lt(ear, BLINK_CLOSE_THRESHOLD) /\ seen)
  IN  Flags(seen, closed, closed, closed)

\* checkBlink's threshold tests with one threshold for both directions
BlinkFlagsOneThreshold(fl, ear) ==
  LET seen == fl.hasSeenEyesOpen \/ Gt(ear, BLINK_OPEN_THRESHOLD)
      closed == fl.eyeClosed \/ (~Gt(ear, BLINK_OPEN_THRESHOLD) /\ seen)
      conf == closed /\ Gt(ear, BLINK_OPEN_THRESHOLD)
  IN  Flags(seen, closed, conf, conf)

BlinkFlags(fl, ear) ==
  LET seen == fl.hasSeenEyesOpen \/ Gt(ear, BLINK_OPEN_THRESHOLD)
      closed == fl.eyeClosed \/ (Lt(ear, BLINK_CLOSE_THRESHOLD) /\ seen)
      conf == closed /\ Gt(ear, BLINK_OPEN_THRESHOLD)
  IN  Flags(seen, closed, conf, conf)

\* whether checkBlink reaches its threshold tests for these points
BlinkEvaluated(tooFar, confirmed, points) ==
  /\ ~tooFar
  /\ valid(LEFT_EYE, points) /\ valid(RIGHT_EYE, points)
  /\ ~IsNaN(Ear(points)) /\ ~LeZero(Ear(points))
  /\ ~confirmed

checkBlink(fl, tooFar, points) ==
  IF BlinkEvaluated(tooFar, fl.blinkConfirmed, points)
  THEN BlinkFlags(fl, Ear(points))
  ELSE [fl EXCEPT !.advance = FALSE]

\* the hold counter of checkTurn for an evaluated frame; advance is called
\* when the counter reaches TURN_HOLD_FRAMES
Hold(n, adv) == [hold |-> n, advance |-> adv, threw |-> FALSE]

TurnHoldNoReset(hold, dir, g) ==
  LET turned == \/ dir = "turn_left" /\ noseTowardImageRight(g)
                \/ dir = "turn_right" /\ noseTowardImageLeft(g)
  IN  IF dir \notin {"turn_left", "turn_right"} THEN Hold(hold, FALSE)
      ELSE IF ~turned THEN Hold(hold, FALSE)
      ELSE IF hold + 1 >= TURN_HOLD_FRAMES THEN Hold(0, TRUE)
      ELSE Hold(hold + 1, FALSE)

TurnHoldAnyDir(hold, dir, g) ==
  LET turned == IF dir = "turn_left" THEN noseTowardImageRight(g)
                ELSE noseTowardImageLeft(g)
  IN  IF ~turned THEN Hold(0, FALSE)
      ELSE IF hold + 1 >= TURN_HOLD_FRAMES THEN Hold(0, TRUE)
      ELSE Hold(hold + 1, FALSE)

\* the hold test of checkTurn with > in place of >=
TurnHoldLate(hold, dir, g) ==
  LET turned == \/ dir = "turn_left" /\ noseTowardImageRight(g)
                \/ dir = "turn_right" /\ noseTowardImageLeft(g)
  IN  IF dir \notin {"turn_left", "turn_right"} THEN Hold(hold, FALSE)
      ELSE IF ~turned THEN Hold(0, FALSE)
      ELSE IF hold + 1 > TURN_HOLD_FRAMES THEN Hold(0, TRUE)
      ELSE Hold(hold + 1, FALSE)

TurnHold(hold, dir, g) ==
  LET turned == \/ dir = "turn_left" /\ noseTowardImageRight(g)
                \/ dir = "turn_right" /\ noseTowardImageLeft(g)
  IN  IF dir \notin {"turn_left", "turn_right"} THEN Hold(hold, FALSE)
      ELSE IF ~turned THEN Hold(0, FALSE)
      ELSE IF hold + 1 >= TURN_HOLD_FRAMES THEN Hold(0, TRUE)
      ELSE Hold(hold + 1, FALSE)

\* whether checkTurn reaches its zone tests: the face is close enough, the
\* three landmarks exist and the cheek width is positive
TurnEvaluated(tooFar, points) ==
  /\ ~tooFar
  /\ valid({NOSE, LEFT_CHEEK, RIGHT_CHEEK}, points)
  /\ points.geo.right - points.geo.left > 0

\* checkTurn without the return at line 373
checkTurnWhenFar(hold, tooFar, points, dir) ==
  IF ~valid({NOSE, LEFT_CHEEK, RIGHT_CHEEK}, points)
  THEN [hold |-> hold, advance |-> FALSE, threw |-> TRUE]
  ELSE IF points.geo.right - points.geo.left <= 0 THEN Hold(hold, FALSE)
  ELSE TurnHold(hold, dir, points.geo)

\* checkTurn; it throws on reading .x of a landmark the frame does not have
checkTurn(hold, tooFar, points, dir) ==
  IF tooFar THEN Hold(hold, FALSE)
  ELSE IF ~valid({NOSE, LEFT_CHEEK, RIGHT_CHEEK}, points)
       THEN [hold |-> hold, advance |-> FALSE, threw |-> TRUE]
  ELSE IF points.geo.right - points.geo.left <= 0 THEN Hold(hold, FALSE)
  ELSE TurnHold(hold, dir, points.geo)

\* advance(): the new index and whether the run has passed
advance(index) ==
  [index |-> index + 1, passed |-> index + 1 >= Len(CHALLENGES)]

(* ------------------------------------------------------------------ *)
(* State                                                               *)
(* ------------------------------------------------------------------ *)
VARIABLES
  \* the mounted component instance (each component has these refs / state)
  status,            \* useState status
  mounted,           \* mountedRef.current
  videoAttached,     \* videoRef.current is not null
  rafSet,            \* rafRef.current is not null
  loop,              \* "setup", "scheduled", "awaiting", "capturing", "idle", "crashed"
  \* FaceLiveness refs
  challengeIndex, eyeClosed, blinkConfirmed, hasSeenEyesOpen, turnHoldFrames,
  frameCount,        \* frameCountRef.current modulo 2 (only its parity is read)
  lastKeypoints,     \* <<>> for null, <<points>> otherwise
  faceTooFar,        \* faceTooFarRef.current
  active,            \* the local `active` of the detect call that is awaiting
  component,         \* which component this instance is
  \* FaceEnrollment / FaceCapture refs
  stableFrames, embeddings,
  \* history: what the last step did, and counts of the callbacks made so far
  ev, advanceCalls, onPassedCalls, fires, onCompleteCalls,
  \* history of the inputs alone
  blinkPhase,        \* 0..3: how much of open, closed, open the readings have shown
  sawBelowClose,     \* some evaluated reading was below the close threshold
  zoneRun,           \* evaluated turned frames in a row within the active challenge
  presentRun,        \* present-face frames in a row, up to the last frame
  script,            \* frames of 89 present, 1 absent, 90 present matched so far, or -1
  sinceSample,       \* present-face frames since the last embedding was pushed
  \* FaceAuthFlow state and refs
  step, doneResult, lastDistance, enrollmentStep,
  captured,          \* capturedRef.current is not null
  storedEmbedding,   \* <<>> for null, <<vector>> otherwise
  enrollmentSamples,
  identity,          \* the mounted FaceIdentity: "none", "running", "error"
  flowRun,           \* history of the run since the flow last entered "liveness"
  firstCall,         \* <<>>, or the argument and branch of the first onEmbeddingReady
  \* the effect runs of one FaceLiveness instance under React Strict Mode
  setups,            \* where each run's setup() call is
  loops,             \* where the detect loop started by each run is
  rafOwner,          \* the run whose loop made the request held in rafRef, or 0
  \* lib/match, lib/faceCrop and FaceEnrollment's averageEmbeddings
  call,              \* the last call of one of these functions and what it gave
  \* FaceIdentity
  lastCompletedRunId,  \* the module-level variable: 0 for null, or a runId
  identityRunId,     \* the runId prop of the mounted FaceIdentity
  runs,              \* the run() calls made by the effect per effect run
  readyCalls,        \* history: onEmbeddingReady calls made so far, per runId
  \* the model loaders: lib/facenet and lib/faceEmbedding
  modelPromise,      \* facenet's module-level modelPromise
  human,             \* faceEmbedding's module-level human
  callers,           \* the calls of the loaders in progress or returned, per caller
  faceNetLoads,      \* history: loads of the FaceNet model started so far
  \* the camera and the detector as the progress property assumes them
  stream             \* "any", or "needed" once every frame is the one awaited

livenessRefs ==
  <<challengeIndex, eyeClosed, blinkConfirmed, hasSeenEyesOpen, turnHoldFrames>>
livenessVars ==
  <<challengeIndex, eyeClosed, blinkConfirmed, hasSeenEyesOpen, turnHoldFrames,
    frameCount, lastKeypoints, faceTooFar, active, advanceCalls, onPassedCalls,
    blinkPhase, sawBelowClose, zoneRun>>
gateRefs ==
  <<stableFrames, embeddings, fires, onCompleteCalls, presentRun, script, sinceSample>>
gateVars == <<component, gateRefs>>
flowVars ==
  <<step, doneResult, lastDistance, enrollmentStep, captured, storedEmbedding,
    enrollmentSamples, identity, flowRun, firstCall>>
strictVars == <<setups, loops, rafOwner>>
loadVars == <<modelPromise, human, callers, faceNetLoads>>
libVars == <<call, loadVars, stream>>
identityVars == <<lastCompletedRunId, identityRunId, runs, readyCalls>>
vars ==
  <<status, mounted, videoAttached, rafSet, loop, ev, livenessVars, gateVars, flowVars,
    strictVars, libVars, identityVars>>

Turns == {"turn_left", "turn_right"}

Event(kind, act) ==
  [kind |-> kind, active |-> act, reused |-> FALSE, evaluated |-> FALSE,
   turned |-> FALSE, advanced |-> FALSE, run |-> 0, holdBefore |-> 0]

(* ------------------------------------------------------------------ *)
(* What the claims call things (read off the inputs, not off the refs) *)
(* ------------------------------------------------------------------ *)
\* the challenge's turned zone: the head turned left shows the nose toward the
\* right of the unmirrored image, and the other way round
InTurnedZone(dir, g) ==
  \/ dir = "turn_left" /\ noseTowardImageRight(g)
  \/ dir = "turn_right" /\ noseTowardImageLeft(g)

\* the frame carries an EAR reading: the face is close enough, the eye points
\* exist and the ratio is a positive number or Infinity
HasReading(tooFar, points) == BlinkEvaluated(tooFar, FALSE, points)

NextPhase(phase, ear) ==
  IF phase = 0 /\ Gt(ear, BLINK_OPEN_THRESHOLD) THEN 1
  ELSE IF phase = 1 /\ Lt(ear, BLINK_CLOSE_THRESHOLD) THEN 2
  ELSE IF phase = 2 /\ Gt(ear, BLINK_OPEN_THRESHOLD) THEN 3
  ELSE phase

(* ------------------------------------------------------------------ *)
(* FaceLiveness                                                        *)
(* ------------------------------------------------------------------ *)
GateIdle ==
  /\ stableFrames = 0 /\ embeddings = <<>> /\ fires = 0 /\ onCompleteCalls = 0
  /\ presentRun = 0 /\ script = 0 /\ sinceSample = 0

Run(stored, samples) ==
  [liveness |-> FALSE, challenge |-> FALSE, stored |-> stored, samples |-> samples,
   captures |-> 0, embeddings |-> 0, distances |-> 0, distance |-> <<>>]

FlowIdle ==
  /\ step = "none" /\ doneResult = "null" /\ lastDistance = <<>> /\ enrollmentStep = 0
  /\ captured = FALSE /\ storedEmbedding = <<>> /\ enrollmentSamples = <<>>
  /\ identity = "none" /\ flowRun = Run(<<>>, <<>>) /\ firstCall = <<>>

StrictIdle == setups = <<>> /\ loops = <<>> /\ rafOwner = 0

MaxRuns == 3
NoCall == [fn |-> "none"]
MaxCallers == 2
NoCaller == [fn |-> "none", state |-> "idle", got |-> "nothing"]
LoadIdle ==
  /\ modelPromise = "null" /\ human = "null" /\ faceNetLoads = 0
  /\ callers = [c \in 1..MaxCallers |-> NoCaller]
LibIdle == call = NoCall /\ LoadIdle /\ stream = "any"
IdentityIdle ==
  /\ lastCompletedRunId = 0 /\ identityRunId = 0 /\ runs = <<>>
  /\ readyCalls = [r \in 1..MaxRuns |-> 0]

InitLiveness ==
  /\ status = "initializing" /\ mounted = TRUE /\ videoAttached = TRUE
  /\ rafSet = FALSE /\ loop = "setup"
  /\ challengeIndex = 0 /\ eyeClosed = FALSE /\ blinkConfirmed = FALSE
  /\ hasSeenEyesOpen = FALSE /\ turnHoldFrames = 0
  /\ frameCount = 0 /\ lastKeypoints = <<>> /\ faceTooFar = FALSE
  /\ active = "blink"
  /\ ev = Event("none", "blink")
  /\ advanceCalls = [c \in {"blink"} \cup Turns |-> 0] /\ onPassedCalls = 0
  /\ blinkPhase = 0 /\ sawBelowClose = FALSE /\ zoneRun = 0
  /\ component = "FaceLiveness"
  /\ GateIdle /\ FlowIdle /\ StrictIdle /\ LibIdle /\ IdentityIdle

\* setup() runs to its end: resetLivenessState, setStatus("challenge"), detect()
SetupDone ==
  /\ loop = "setup"
  /\ IF mounted
     THEN /\ challengeIndex' = 0 /\ eyeClosed' = FALSE /\ blinkConfirmed' = FALSE
          /\ hasSeenEyesOpen' = FALSE /\ turnHoldFrames' = 0
          /\ status' = "challenge" /\ loop' = "scheduled"
     ELSE /\ UNCHANGED <<livenessRefs, status>> /\ loop' = "idle"
  /\ ev' = Event("setup", "blink")
  /\ UNCHANGED <<mounted, videoAttached, rafSet, frameCount, lastKeypoints, faceTooFar,
                 active, advanceCalls, onPassedCalls, blinkPhase, sawBelowClose,
                 zoneRun, gateVars, flowVars, libVars, identityVars, strictVars>>

\* setup() rejects (camera, backend or model): the effect's catch sets "error"
SetupFail ==
  /\ loop = "setup"
  /\ loop' = "idle"
  /\ status' = IF mounted THEN "error" ELSE status
  /\ ev' = Event("setupfail", "blink")
  /\ UNCHANGED <<mounted, videoAttached, rafSet, livenessVars, gateVars, flowVars, libVars, identityVars,
                 strictVars>>

\* the effect cleanup on unmount
Unmount ==
  /\ mounted
  /\ mounted' = FALSE /\ videoAttached' = FALSE
  /\ loop' = IF loop = "scheduled" THEN "idle" ELSE loop
  /\ ev' = Event("unmount", ev.active)
  /\ UNCHANGED <<status, rafSet, livenessVars, gateVars, flowVars, libVars, identityVars,
                 strictVars>>

\* detect() from line 296 to line 339, for the points of this frame
ApplyChecks(points, act, reused) ==
  LET tooFar == TooFar(points)
      fl == Flags(hasSeenEyesOpen, eyeClosed, blinkConfirmed, FALSE)
      b == IF act = "blink" THEN checkBlink(fl, tooFar, points) ELSE fl
      t == IF act = "blink" THEN Hold(turnHoldFrames, FALSE)
           ELSE checkTurn(turnHoldFrames, tooFar, points, act)
      adv == b.advance \/ t.advance
      a == advance(challengeIndex)
      evalB == act = "blink" /\ HasReading(tooFar, points)
      evalT == act \in Turns /\ TurnEvaluated(tooFar, points)
      inZone == evalT /\ InTurnedZone(act, points.geo)
      run == IF evalT THEN (IF inZone THEN Min(zoneRun + 1, TURN_HOLD_FRAMES) ELSE 0)
             ELSE zoneRun
  IN  /\ faceTooFar' = tooFar
      /\ hasSeenEyesOpen' = b.hasSeenEyesOpen
      /\ eyeClosed' = b.eyeClosed
      /\ blinkConfirmed' = b.blinkConfirmed
      /\ turnHoldFrames' = IF adv THEN 0 ELSE t.hold
      /\ challengeIndex' = IF adv THEN a.index ELSE challengeIndex
      /\ status' = IF adv /\ a.passed THEN "passed" ELSE status
      /\ onPassedCalls' = IF adv /\ a.passed THEN Bump(onPassedCalls) ELSE onPassedCalls
      /\ advanceCalls' = IF adv /\ act \in DOMAIN advanceCalls
                         THEN [advanceCalls EXCEPT ![act] = Bump(@)]
                         ELSE advanceCalls
      /\ blinkPhase' = IF evalB THEN NextPhase(blinkPhase, Ear(points)) ELSE blinkPhase
      /\ sawBelowClose' = (sawBelowClose \/ (evalB /\ Lt(Ear(points), BLINK_CLOSE_THRESHOLD)))
      /\ zoneRun' = IF adv THEN 0 ELSE run
      /\ ev' = [kind |-> IF t.threw THEN "crash" ELSE "frame", active |-> act,
                reused |-> reused, evaluated |-> evalB \/ evalT, turned |-> inZone,
                advanced |-> adv, run |-> run, holdBefore |-> turnHoldFrames]

\* the same with line 341: the next frame is requested unless a check threw
ProcessPoints(points, act, reused) ==
  /\ ApplyChecks(points, act, reused)
  /\ loop' = IF ev'.kind = "crash" THEN "crashed" ELSE "scheduled"
  /\ rafSet' = IF ev'.kind = "crash" THEN rafSet ELSE TRUE

\* the variant in which losing the face restarts the hold
EndFrameResetsHold(kind, act) ==
  /\ ev' = Event(kind, act)
  /\ rafSet' = TRUE /\ loop' = "scheduled"
  /\ turnHoldFrames' = IF kind = "noface" THEN 0 ELSE turnHoldFrames
  /\ UNCHANGED <<status, challengeIndex, eyeClosed, blinkConfirmed, hasSeenEyesOpen,
                 advanceCalls, onPassedCalls, blinkPhase, sawBelowClose, zoneRun>>

\* a frame that ends before any check: the liveness refs stay as they are
EndFrame(kind, act) ==
  /\ ev' = Event(kind, act)
  /\ rafSet' = TRUE /\ loop' = "scheduled"
  /\ UNCHANGED <<status, livenessRefs, advanceCalls, onPassedCalls, blinkPhase,
                 sawBelowClose, zoneRun>>

\* the variant that reuses the last keypoints during every challenge
skipInferenceAnyChallenge(act, count, last) ==
  count % 2 = 1 /\ last # <<>>

\* detect() line 249: every other frame of the blink challenge reuses the last keypoints
skipInference(act, count, last) ==
  act = "blink" /\ count % 2 = 1 /\ last # <<>>

\* detect() up to its await (or to its end when the last keypoints are reused)
DetectBegin(ready) ==
  /\ loop = "scheduled"
  /\ UNCHANGED <<mounted, videoAttached, gateVars, flowVars, libVars, identityVars, strictVars>>
  /\ IF ~videoAttached
     THEN /\ loop' = "idle" /\ ev' = Event("return", ev.active)
          /\ UNCHANGED <<status, rafSet, livenessVars>>
     ELSE IF ~ready
     THEN /\ EndFrame("notready", ev.active)
          /\ UNCHANGED <<frameCount, lastKeypoints, faceTooFar, active>>
     ELSE LET act == ActiveOf(challengeIndex)
              skip == skipInference(act, frameCount, lastKeypoints)
          IN  /\ frameCount' = (frameCount + 1) % 2
              /\ active' = act
              /\ UNCHANGED lastKeypoints
              /\ IF skip
                 THEN IF lastKeypoints[1].kp < MIN_KEYPOINTS
                      THEN EndFrame("short", act) /\ UNCHANGED faceTooFar
                      ELSE ProcessPoints(lastKeypoints[1], act, TRUE)
                 ELSE /\ loop' = "awaiting" /\ ev' = Event("await", act)
                      /\ UNCHANGED <<status, rafSet, livenessRefs, faceTooFar,
                                     advanceCalls, onPassedCalls, blinkPhase,
                                     sawBelowClose, zoneRun>>

\* detect() from the return of estimateFaces to its end
DetectResume(r) ==
  /\ loop = "awaiting"
  /\ UNCHANGED <<mounted, videoAttached, frameCount, active, gateVars, flowVars, libVars, identityVars,
                 strictVars>>
  /\ IF r.err
     THEN EndFrame("throw", active) /\ UNCHANGED <<lastKeypoints, faceTooFar>>
     ELSE IF r.faces = <<>>
     THEN /\ EndFrame("noface", active)
          /\ lastKeypoints' = <<>> /\ faceTooFar' = FALSE
     ELSE IF r.faces[1].kp < MIN_KEYPOINTS
     THEN EndFrame("short", active) /\ UNCHANGED <<lastKeypoints, faceTooFar>>
     ELSE /\ lastKeypoints' = <<r.faces[1]>>
          /\ ProcessPoints(r.faces[1], active, FALSE)

NextLiveness ==
  \/ SetupDone
  \/ SetupFail
  \/ Unmount
  \/ \E ready \in BOOLEAN : DetectBegin(ready)
  \/ \E r \in DetectorResults : DetectResume(r)

Spec == InitLiveness /\ [][NextLiveness]_vars

(* ------------------------------------------------------------------ *)
(* FaceEnrollment and FaceCapture: the stable-frame gate               *)
(* ------------------------------------------------------------------ *)
\* outcome of one estimateFaces call of the face-box detector
GateResults == [err : BOOLEAN, n : {0, 1}]

Stable(n, fire) == [stable |-> n, fire |-> fire]

\* FaceEnrollment.detect: the counter after a frame with faces.length = n
enrollStableNoReset(stable, n) ==
  IF n = 0 THEN Stable(stable, FALSE)
  ELSE Stable(stable + 1, stable + 1 >= REQUIRED_FRAMES)

enrollStable(stable, n) ==
  IF n = 0 THEN Stable(0, FALSE)
  ELSE Stable(stable + 1, stable + 1 >= REQUIRED_FRAMES)

\* FaceEnrollment.detect line 111: the counter once captureEmbedding has returned
afterCaptureKeeps(stable) == stable

afterCapture(stable) == 0

\* FaceCapture.detect: the same test
captureStable(stable, n) ==
  IF n = 0 THEN Stable(0, FALSE)
  ELSE Stable(stable + 1, stable + 1 >= REQUIRED_FRAMES)

LivenessIdle ==
  /\ challengeIndex = 0 /\ eyeClosed = FALSE /\ blinkConfirmed = FALSE
  /\ hasSeenEyesOpen = FALSE /\ turnHoldFrames = 0
  /\ frameCount = 0 /\ lastKeypoints = <<>> /\ faceTooFar = FALSE
  /\ active = "blink"
  /\ advanceCalls = [c \in {"blink"} \cup Turns |-> 0] /\ onPassedCalls = 0
  /\ blinkPhase = 0 /\ sawBelowClose = FALSE /\ zoneRun = 0

InitGate ==
  /\ component \in {"FaceEnrollment", "FaceCapture"}
  /\ status = "initializing" /\ mounted = TRUE /\ videoAttached = TRUE
  /\ rafSet = FALSE /\ loop = "setup"
  /\ ev = Event("none", "none")
  /\ LivenessIdle
  /\ GateIdle /\ FlowIdle /\ StrictIdle /\ LibIdle /\ IdentityIdle

\* the input history: consecutive present frames, and the place in the
\* frame sequence 89 present, 1 absent, 90 present
ScriptLen == 2 * REQUIRED_FRAMES
ScriptExpects(k) == IF k = REQUIRED_FRAMES THEN 0 ELSE 1
Feed(n) ==
  /\ presentRun' = IF n = 0 THEN 0 ELSE Min(presentRun + 1, ScriptLen)
  /\ sinceSample' = IF n = 0 THEN sinceSample ELSE Min(sinceSample + 1, REQUIRED_FRAMES)
  /\ script' = IF script >= 0 /\ script < ScriptLen /\ n = ScriptExpects(script + 1)
               THEN script + 1 ELSE -1

\* setup() resolves; FaceEnrollment's then-callback or FaceCapture's setup calls detect()
GateSetupDone ==
  /\ loop = "setup"
  /\ IF mounted THEN status' = "hold_still" /\ loop' = "scheduled"
     ELSE status' = status /\ loop' = "idle"
  /\ ev' = Event("setup", "none")
  /\ UNCHANGED <<mounted, videoAttached, rafSet, livenessVars, gateVars, flowVars, libVars, identityVars,
                 strictVars>>

\* setup() rejects, or FaceNet is missing: FaceEnrollment shows "error";
\* FaceCapture calls setup() without a catch
GateSetupFail ==
  /\ loop = "setup"
  /\ loop' = "idle"
  /\ status' = IF mounted /\ component = "FaceEnrollment" THEN "error" ELSE status
  /\ ev' = Event("setupfail", "none")
  /\ UNCHANGED <<mounted, videoAttached, rafSet, livenessVars, gateVars, flowVars, libVars, identityVars,
                 strictVars>>

\* detect() up to its await of estimateFaces
GateDetectBegin ==
  /\ loop = "scheduled"
  /\ Len(embeddings) < MaxSamples
  /\ loop' = IF videoAttached THEN "awaiting" ELSE "idle"
  /\ ev' = Event(IF videoAttached THEN "await" ELSE "return", "none")
  /\ UNCHANGED <<status, mounted, videoAttached, rafSet, livenessVars, gateVars, flowVars, libVars, identityVars,
                 strictVars>>

\* FaceEnrollment.detect() after estimateFaces, up to the await in captureEmbedding
EnrollDetectResume(r) ==
  /\ component = "FaceEnrollment" /\ loop = "awaiting"
  /\ UNCHANGED <<mounted, videoAttached, livenessVars, flowVars, libVars, identityVars, strictVars, component,
                 embeddings, onCompleteCalls>>
  /\ IF r.err
     THEN /\ loop' = "crashed" /\ ev' = Event("crash", "none")
          /\ UNCHANGED <<status, rafSet, stableFrames, fires, presentRun, script,
                          sinceSample>>
     ELSE LET g == enrollStable(stableFrames, r.n)
          IN  /\ Feed(r.n)
              /\ IF g.fire /\ videoAttached
                 THEN /\ stableFrames' = g.stable /\ status' = "capturing"
                      /\ loop' = "capturing" /\ fires' = Bump(fires)
                      /\ ev' = Event("fire", "none") /\ UNCHANGED rafSet
                 ELSE /\ stableFrames' = IF g.fire THEN afterCapture(g.stable) ELSE g.stable
                      /\ rafSet' = TRUE /\ loop' = "scheduled"
                      /\ ev' = Event(IF r.n = 0 THEN "absent" ELSE "present", "none")
                      /\ UNCHANGED <<status, fires>>

\* captureEmbedding after getEmbedding, finalizeEnrollment, and the rest of detect()
EnrollCaptureDone(ok) ==
  /\ component = "FaceEnrollment" /\ loop = "capturing"
  /\ UNCHANGED <<mounted, videoAttached, livenessVars, flowVars, libVars, identityVars, strictVars, component,
                 fires, presentRun, script>>
  /\ IF ok
     THEN LET done == Len(embeddings) + 1 >= REQUIRED_SAMPLES
          IN  /\ embeddings' = Append(embeddings, "embedding")
              /\ status' = IF done THEN "saved" ELSE status
              /\ onCompleteCalls' = IF done THEN Bump(onCompleteCalls) ELSE onCompleteCalls
              /\ stableFrames' = afterCapture(stableFrames)
              /\ sinceSample' = 0
              /\ rafSet' = TRUE /\ loop' = "scheduled"
              /\ ev' = Event("captured", "none")
     ELSE /\ loop' = "crashed" /\ ev' = Event("crash", "none")
          /\ UNCHANGED <<status, rafSet, stableFrames, embeddings, onCompleteCalls,
                          sinceSample>>

\* FaceCapture.detect() after estimateFaces
CaptureDetectResume(r) ==
  /\ component = "FaceCapture" /\ loop = "awaiting"
  /\ UNCHANGED <<mounted, videoAttached, livenessVars, flowVars, libVars, identityVars, strictVars, component,
                 embeddings, onCompleteCalls>>
  /\ IF r.err
     THEN /\ loop' = "crashed" /\ ev' = Event("crash", "none")
          /\ UNCHANGED <<status, rafSet, stableFrames, fires, presentRun, script,
                          sinceSample>>
     ELSE LET g == captureStable(stableFrames, r.n)
          IN  /\ Feed(r.n)
              /\ stableFrames' = g.stable
              /\ IF ~g.fire
                 THEN /\ rafSet' = TRUE /\ loop' = "scheduled"
                      /\ ev' = Event(IF r.n = 0 THEN "absent" ELSE "present", "none")
                      /\ UNCHANGED <<status, fires>>
                 ELSE IF ~rafSet
                 THEN /\ loop' = "idle" /\ ev' = Event("return", "none")
                      /\ UNCHANGED <<status, rafSet, fires>>
                 ELSE IF ~videoAttached
                 THEN /\ rafSet' = FALSE /\ loop' = "crashed"
                      /\ ev' = Event("crash", "none")
                      /\ UNCHANGED <<status, fires>>
                 ELSE /\ rafSet' = FALSE /\ loop' = "idle"
                      /\ status' = IF mounted THEN "captured" ELSE status
                      /\ fires' = IF mounted THEN Bump(fires) ELSE fires
                      /\ ev' = Event(IF mounted THEN "fire" ELSE "return", "none")

NextGate ==
  \/ GateSetupDone
  \/ GateSetupFail
  \/ Unmount
  \/ GateDetectBegin
  \/ \E r \in GateResults : EnrollDetectResume(r)
  \/ \E ok \in BOOLEAN : EnrollCaptureDone(ok)
  \/ \E r \in GateResults : CaptureDetectResume(r)

SpecGate == InitGate /\ [][NextGate]_vars

(* ------------------------------------------------------------------ *)
(* FaceLiveness under React Strict Mode: the effect runs twice on the   *)
(* same refs; each detect() call is taken as one step                  *)
(* ------------------------------------------------------------------ *)
InitStrict ==
  /\ status = "initializing" /\ mounted = TRUE /\ videoAttached = TRUE
  /\ rafSet = FALSE /\ loop = "idle"
  /\ ev = Event("mount", "blink")
  /\ LivenessIdle
  /\ component = "FaceLiveness"
  /\ GateIdle /\ FlowIdle /\ LibIdle /\ IdentityIdle
  /\ setups = <<"camera">> /\ loops = <<"none">> /\ rafOwner = 0

\* Strict Mode runs the cleanup and then the effect again, in one go, right
\* after the first effect run: mountedRef goes to false and back to true,
\* rafRef is still null, no stream is attached yet, and setup() is called again
StrictRemount ==
  /\ mounted /\ setups = <<"camera">>
  /\ setups' = Append(setups, "camera") /\ loops' = Append(loops, "none")
  /\ ev' = Event("remount", ev.active)
  /\ UNCHANGED <<status, mounted, videoAttached, rafSet, loop, rafOwner, livenessVars,
                 gateVars, flowVars, libVars, identityVars>>

\* the cleanup of the real unmount: it cancels the request held in rafRef
StrictUnmount ==
  /\ mounted
  /\ mounted' = FALSE /\ videoAttached' = FALSE
  /\ loops' = [k \in DOMAIN loops |->
                 IF rafSet /\ k = rafOwner /\ loops[k] = "scheduled" THEN "idle"
                 ELSE loops[k]]
  /\ ev' = Event("unmount", ev.active)
  /\ UNCHANGED <<status, rafSet, loop, setups, rafOwner, livenessVars, gateVars, flowVars, libVars, identityVars>>

\* setup() of run i resumes from an await: after getUserMedia (line 112),
\* after the detector is created (lines 142-157), after the last wait (line 164)
StrictSetupStep(i, ok) ==
  /\ i \in DOMAIN setups /\ setups[i] \in {"camera", "detector", "starting"}
  /\ ev' = Event("setup", ev.active)
  /\ UNCHANGED <<mounted, videoAttached, rafSet, loop, rafOwner, frameCount,
                 lastKeypoints, faceTooFar, active, advanceCalls, onPassedCalls,
                 blinkPhase, sawBelowClose, zoneRun, gateVars, flowVars, libVars, identityVars>>
  /\ IF ~ok /\ setups[i] # "starting"
     THEN /\ setups' = [setups EXCEPT ![i] = "failed"]
          /\ status' = IF mounted THEN "error" ELSE status
          /\ UNCHANGED <<loops, livenessRefs>>
     ELSE IF ~mounted
     THEN /\ setups' = [setups EXCEPT ![i] = "returned"]
          /\ UNCHANGED <<status, loops, livenessRefs>>
     ELSE IF setups[i] = "camera"
     THEN /\ setups' = [setups EXCEPT ![i] = "detector"]
          /\ UNCHANGED <<status, loops, livenessRefs>>
     ELSE IF setups[i] = "detector"
     THEN /\ setups' = [setups EXCEPT ![i] = "starting"]
          /\ challengeIndex' = 0 /\ eyeClosed' = FALSE /\ blinkConfirmed' = FALSE
          /\ hasSeenEyesOpen' = FALSE /\ turnHoldFrames' = 0
          /\ status' = "challenge"
          /\ UNCHANGED loops
     ELSE /\ setups' = [setups EXCEPT ![i] = "done"]
          /\ loops' = [loops EXCEPT ![i] = "scheduled"]
          /\ UNCHANGED <<status, livenessRefs>>

\* a frame of loop i that ends before any check
QuietFrame(kind, act) ==
  /\ ev' = Event(kind, act)
  /\ UNCHANGED <<status, livenessRefs, advanceCalls, onPassedCalls, blinkPhase,
                 sawBelowClose, zoneRun>>

\* loop i requests its next frame and writes the handle to rafRef; when the
\* run has just passed, advance() first cancelled the request rafRef held
Request(i, passedNow) ==
  /\ loops' = [k \in DOMAIN loops |->
                 IF k = i THEN "scheduled"
                 ELSE IF passedNow /\ rafSet /\ k = rafOwner /\ loops[k] = "scheduled"
                 THEN "idle"
                 ELSE loops[k]]
  /\ rafSet' = TRUE /\ rafOwner' = i

\* one detect() call of the loop started by run i
StrictFrame(i, ready, r) ==
  /\ i \in DOMAIN loops /\ loops[i] = "scheduled"
  /\ UNCHANGED <<mounted, videoAttached, loop, setups, gateVars, flowVars, libVars, identityVars>>
  /\ IF ~videoAttached
     THEN /\ loops' = [loops EXCEPT ![i] = "idle"]
          /\ ev' = Event("return", ev.active)
          /\ UNCHANGED <<status, rafSet, rafOwner, livenessVars>>
     ELSE IF ~ready
     THEN /\ QuietFrame("notready", ev.active) /\ Request(i, FALSE)
          /\ UNCHANGED <<frameCount, lastKeypoints, faceTooFar, active>>
     ELSE LET act == ActiveOf(challengeIndex)
              skip == skipInference(act, frameCount, lastKeypoints)
              points == IF skip THEN lastKeypoints
                        ELSE IF r.err THEN <<>> ELSE r.faces
          IN  /\ frameCount' = (frameCount + 1) % 2
              /\ active' = act
              /\ IF ~skip /\ r.err
                 THEN /\ QuietFrame("throw", act) /\ Request(i, FALSE)
                      /\ UNCHANGED <<lastKeypoints, faceTooFar>>
                 ELSE IF points = <<>>
                 THEN /\ QuietFrame("noface", act) /\ Request(i, FALSE)
                      /\ lastKeypoints' = <<>> /\ faceTooFar' = FALSE
                 ELSE IF points[1].kp < MIN_KEYPOINTS
                 THEN /\ QuietFrame("short", act) /\ Request(i, FALSE)
                      /\ UNCHANGED <<lastKeypoints, faceTooFar>>
                 ELSE /\ lastKeypoints' = points
                      /\ ApplyChecks(points[1], act, skip)
                      /\ IF ev'.kind = "crash"
                         THEN /\ loops' = [loops EXCEPT ![i] = "crashed"]
                              /\ UNCHANGED <<rafSet, rafOwner>>
                         ELSE Request(i, status' = "passed" /\ status # "passed")

\* the detector results fed to the two loops: no face, eyes open, eyes
\* closed, head turned to either side
StrictResults ==
  {[err |-> FALSE, faces |-> <<>>]}
  \cup {[err |-> FALSE, faces |-> <<Frame(468, <<e, e>>, GeoNeutral, WidthNear)>>] :
          e \in {EyeOpen, EyeClosed}}
  \cup {[err |-> FALSE, faces |-> <<Frame(468, <<EyeOpen, EyeOpen>>, g, WidthNear)>>] :
          g \in {Geo(80, 0, 100), Geo(20, 0, 100)}}

NextStrict ==
  \/ StrictRemount
  \/ StrictUnmount
  \/ \E i \in {1, 2}, ok \in BOOLEAN : StrictSetupStep(i, ok)
  \/ \E i \in {1, 2}, ready \in BOOLEAN, r \in StrictResults : StrictFrame(i, ready, r)

SpecStrict == InitStrict /\ [][NextStrict]_vars

(* ------------------------------------------------------------------ *)
(* Embeddings: lib/match                                               *)
(* ------------------------------------------------------------------ *)
\* Vectors are sequences of whole numbers counted in 1/Unit; distances are
\* counted in hundredths.
Unit == 5 * 5
MaxRoot == 3 * Unit
MATCH_THRESHOLD == 32
ENROLLMENT_SAMPLES == 3

Sqrt(n) == CHOOSE r \in 0..MaxRoot : r * r <= n /\ n < (r + 1) * (r + 1)

RECURSIVE DotUpTo(_, _, _)
DotUpTo(a, b, n) == IF n = 0 THEN 0 ELSE DotUpTo(a, b, n - 1) + a[n] * b[n]

RECURSIVE SumAt(_, _, _)
SumAt(samples, i, k) == IF k = 0 THEN 0 ELSE SumAt(samples, i, k - 1) + samples[k][i]

\* cosineDistance with the length check taken out: the sums run over the
\* components both vectors have
cosineDistanceShorter(a, b) ==
  LET n == Min(Len(a), Len(b))
      norm == Sqrt(DotUpTo(a, a, n)) * Sqrt(DotUpTo(b, b, n))
  IN  [threw |-> FALSE,
       distance |-> IF norm = 0 THEN 100 ELSE 100 - ((100 * DotUpTo(a, b, n)) \div norm)]

\* cosineDistance with the zero-norm case giving distance 0
cosineDistanceZeroNear(a, b) ==
  IF Len(a) # Len(b) THEN [threw |-> TRUE, distance |-> 0]
  ELSE LET norm == Sqrt(DotUpTo(a, a, Len(a))) * Sqrt(DotUpTo(b, b, Len(a)))
       IN  [threw |-> FALSE,
            distance |-> IF norm = 0 THEN 0
                         ELSE 100 - ((100 * DotUpTo(a, b, Len(a))) \div norm)]

\* cosineDistance: throws on a length mismatch; 1 when a norm is zero
cosineDistance(a, b) ==
  IF Len(a) # Len(b) THEN [threw |-> TRUE, distance |-> 0]
  ELSE LET dot == DotUpTo(a, b, Len(a))
           normA == DotUpTo(a, a, Len(a))
           normB == DotUpTo(b, b, Len(a))
           norm == Sqrt(normA) * Sqrt(normB)
       IN  [threw |-> FALSE,
            distance |-> IF norm = 0 THEN 100 ELSE 100 - ((100 * dot) \div norm)]

\* normalize: the vector divided by its Euclidean norm; a zero vector as it is
normalize(v) ==
  LET n == Sqrt(DotUpTo(v, v, Len(v)))
  IN  IF n = 0 THEN v ELSE [i \in 1..Len(v) |-> (v[i] * Unit) \div n]

\* averageEmbeddings: the element-wise mean of the samples, normalized
averageEmbeddings(samples) ==
  normalize([i \in 1..Len(samples[1]) |-> SumAt(samples, i, Len(samples)) \div Len(samples)])

\* what getEmbedding can return: a unit vector, the same direction at twice
\* the length, directions at distance 0.2, 0.32 and 0.4 from it, an
\* orthogonal one, and the zero vector
Embeddings ==
  { <<25, 0, 0, 0>>, <<50, 0, 0, 0>>, <<20, 15, 0, 0>>, <<17, 4, 8, 16>>,
    <<15, 20, 0, 0>>, <<0, 0, 25, 0>>, <<0, 0, 0, 0>> }

(* ------------------------------------------------------------------ *)
(* FaceAuthFlow: the variant with enrollment samples (component         *)
(* "FaceAuthFlow") and the single-sample variant ("FaceAuthFlowSingle") *)
(* ------------------------------------------------------------------ *)
Flow ==
  [step |-> step, doneResult |-> doneResult, lastDistance |-> lastDistance,
   enrollmentStep |-> enrollmentStep, storedEmbedding |-> storedEmbedding,
   enrollmentSamples |-> enrollmentSamples]

Outcome(f, branch, distance) ==
  [flow |-> f, threw |-> FALSE, branch |-> branch, distance |-> distance]
Threw(f, branch) == [flow |-> f, threw |-> TRUE, branch |-> branch, distance |-> <<>>]

isMatch(distance) == distance < MATCH_THRESHOLD

\* the variant in which a verification also refreshes the template
verifyBranchUpdatesTemplate(f, stored, live) ==
  LET d == cosineDistance(stored, live)
  IN  IF d.threw THEN Threw(f, "verify")
      ELSE Outcome([f EXCEPT !.lastDistance = <<d.distance>>,
                             !.doneResult = IF isMatch(d.distance) THEN "match"
                                            ELSE "no_match",
                             !.storedEmbedding = <<live>>,
                             !.step = "done"], "verify", <<d.distance>>)

\* handleEmbeddingReady with a stored template
verifyBranch(f, stored, live) ==
  LET d == cosineDistance(stored, live)
  IN  IF d.threw THEN Threw(f, "verify")
      ELSE Outcome([f EXCEPT !.lastDistance = <<d.distance>>,
                             !.doneResult = IF isMatch(d.distance) THEN "match"
                                            ELSE "no_match",
                             !.step = "done"], "verify", <<d.distance>>)

\* handleEmbeddingReady without a stored template
enrollBranch(f, live) ==
  LET samples == Append(f.enrollmentSamples, live)
  IN  IF Len(samples) < ENROLLMENT_SAMPLES
      THEN Outcome([f EXCEPT !.enrollmentSamples = samples,
                             !.enrollmentStep = Len(samples) + 1,
                             !.step = "capture"], "enroll", <<>>)
      ELSE Outcome([f EXCEPT !.storedEmbedding = <<averageEmbeddings(samples)>>,
                             !.enrollmentSamples = <<>>,
                             !.enrollmentStep = 0,
                             !.lastDistance = <<>>,
                             !.doneResult = "enrolled",
                             !.step = "done"], "enroll", <<>>)

handleEmbeddingReady(f, embedding) ==
  LET live == normalize(embedding)
  IN  IF f.storedEmbedding # <<>>
      THEN verifyBranch(f, f.storedEmbedding[1], live)
      ELSE enrollBranch(f, live)

\* the single-sample variant: isMatch is computed and only logged
handleEmbeddingReadySingle(f, embedding) ==
  IF f.storedEmbedding # <<>>
  THEN LET d == cosineDistance(f.storedEmbedding[1], embedding)
       IN  IF d.threw THEN Threw(f, "verify")
           ELSE Outcome([f EXCEPT !.step = "done"], "verify", <<d.distance>>)
  ELSE Outcome([f EXCEPT !.storedEmbedding = <<embedding>>, !.step = "done"],
               "enroll", <<>>)

\* the variants of Verify again that skip the challenges, or drop the template
handleVerifyAgainToCapture(f) ==
  [f EXCEPT !.doneResult = "null", !.lastDistance = <<>>, !.step = "capture"]

handleVerifyAgainClears(f) ==
  [f EXCEPT !.storedEmbedding = <<>>, !.doneResult = "null", !.lastDistance = <<>>,
            !.step = "liveness"]

handleVerifyAgain(f) ==
  [f EXCEPT !.doneResult = "null", !.lastDistance = <<>>, !.step = "liveness"]

handleEnrollAgain(f) ==
  [f EXCEPT !.storedEmbedding = <<>>, !.enrollmentSamples = <<>>, !.enrollmentStep = 0,
            !.doneResult = "null", !.lastDistance = <<>>, !.step = "liveness"]

\* the line the done step renders
Shown ==
  IF step # "done" THEN "none"
  ELSE IF component = "FaceAuthFlowSingle" THEN "Identity verified"
  ELSE IF doneResult = "enrolled" THEN "Identity enrolled"
  ELSE IF doneResult = "match" THEN "Identity verified"
  ELSE IF doneResult = "no_match" THEN "Identity not verified"
  ELSE "none"

FlowEvent(kind, branch, embedding) ==
  [kind |-> kind, branch |-> branch, embedding |-> embedding]

SetFlow(f) ==
  /\ step' = f.step /\ doneResult' = f.doneResult /\ lastDistance' = f.lastDistance
  /\ enrollmentStep' = f.enrollmentStep /\ storedEmbedding' = f.storedEmbedding
  /\ enrollmentSamples' = f.enrollmentSamples

\* what no FaceAuthFlow step touches: the refs of the mounted child
childVars ==
  <<status, mounted, videoAttached, rafSet, loop, livenessVars, gateVars, strictVars,
    libVars, identityVars>>

InitFlow ==
  /\ component \in {"FaceAuthFlow", "FaceAuthFlowSingle"}
  /\ status = "none" /\ mounted = FALSE /\ videoAttached = FALSE
  /\ rafSet = FALSE /\ loop = "idle"
  /\ ev = FlowEvent("none", "none", <<>>)
  /\ LivenessIdle /\ GateIdle /\ StrictIdle /\ LibIdle /\ IdentityIdle
  /\ step = "liveness" /\ doneResult = "null" /\ lastDistance = <<>>
  /\ enrollmentStep = 0 /\ captured = FALSE /\ storedEmbedding = <<>>
  /\ enrollmentSamples = <<>> /\ identity = "none"
  /\ flowRun = Run(<<>>, <<>>) /\ firstCall = <<>>

\* FaceLiveness of the liveness step calls onPassed
LivenessPassed ==
  /\ step = "liveness"
  /\ step' = "challenge"
  /\ flowRun' = [flowRun EXCEPT !.liveness = TRUE]
  /\ ev' = FlowEvent("passed", "none", <<>>)
  /\ UNCHANGED <<doneResult, lastDistance, enrollmentStep, captured, storedEmbedding,
                 enrollmentSamples, identity, firstCall, childVars>>

\* FaceLivenessChallenge calls onPassed
ChallengePassed ==
  /\ step = "challenge"
  /\ step' = "capture"
  /\ flowRun' = [flowRun EXCEPT !.challenge = TRUE]
  /\ ev' = FlowEvent("passed", "none", <<>>)
  /\ UNCHANGED <<doneResult, lastDistance, enrollmentStep, captured, storedEmbedding,
                 enrollmentSamples, identity, firstCall, childVars>>

\* FaceCapture calls onCaptured; the identity step mounts FaceIdentity, whose
\* effect starts run()
handleCaptured ==
  /\ step = "capture"
  /\ captured' = TRUE /\ step' = "identity" /\ identity' = "running"
  /\ flowRun' = [flowRun EXCEPT !.captures = Bump(@)]
  /\ ev' = FlowEvent("captured", "none", <<>>)
  /\ UNCHANGED <<doneResult, lastDistance, enrollmentStep, storedEmbedding,
                 enrollmentSamples, firstCall, childVars>>

\* getEmbedding resolves in FaceIdentity.run, which calls onEmbeddingReady; an
\* exception of the handler lands in run's catch
EmbeddingReady(embedding) ==
  /\ step = "identity" /\ captured /\ identity = "running"
  /\ LET r == IF component = "FaceAuthFlowSingle"
              THEN handleEmbeddingReadySingle(Flow, embedding)
              ELSE handleEmbeddingReady(Flow, embedding)
     IN  /\ SetFlow(r.flow)
         /\ identity' = IF r.threw THEN "error" ELSE "none"
         /\ flowRun' = [flowRun EXCEPT !.embeddings = Min(@ + 1, ENROLLMENT_SAMPLES + 1),
                                       !.distances = IF r.distance # <<>> THEN Bump(@) ELSE @,
                                       !.distance = IF r.distance # <<>> THEN r.distance ELSE @]
         /\ firstCall' = IF firstCall = <<>>
                         THEN <<[embedding |-> embedding, branch |-> r.branch]>>
                         ELSE firstCall
         /\ ev' = FlowEvent(IF r.threw THEN "threw" ELSE "embedding", r.branch, embedding)
  /\ UNCHANGED <<captured, childVars>>

\* getEmbedding rejects: FaceIdentity shows "error" and calls nothing
IdentityFailed ==
  /\ step = "identity" /\ captured /\ identity = "running"
  /\ identity' = "error"
  /\ ev' = FlowEvent("failed", "none", <<>>)
  /\ UNCHANGED <<step, doneResult, lastDistance, enrollmentStep, captured,
                 storedEmbedding, enrollmentSamples, flowRun, firstCall, childVars>>

\* the buttons of the done step
VerifyAgain ==
  /\ component = "FaceAuthFlow" /\ step = "done" /\ doneResult # "null"
  /\ SetFlow(handleVerifyAgain(Flow))
  /\ flowRun' = Run(handleVerifyAgain(Flow).storedEmbedding,
                  handleVerifyAgain(Flow).enrollmentSamples)
  /\ ev' = FlowEvent("verify_again", "none", <<>>)
  /\ UNCHANGED <<captured, identity, firstCall, childVars>>

EnrollAgain ==
  /\ component = "FaceAuthFlow" /\ step = "done" /\ doneResult # "null"
  /\ SetFlow(handleEnrollAgain(Flow))
  /\ flowRun' = Run(handleEnrollAgain(Flow).storedEmbedding,
                  handleEnrollAgain(Flow).enrollmentSamples)
  /\ ev' = FlowEvent("enroll_again", "none", <<>>)
  /\ UNCHANGED <<captured, identity, firstCall, childVars>>

NextFlow ==
  \/ LivenessPassed
  \/ ChallengePassed
  \/ handleCaptured
  \/ \E embedding \in Embeddings : EmbeddingReady(embedding)
  \/ IdentityFailed
  \/ VerifyAgain
  \/ EnrollAgain

SpecFlow == InitFlow /\ [][NextFlow]_vars

(* ------------------------------------------------------------------ *)
(* Every component that keeps samples: FaceEnrollment or a FaceAuthFlow *)
(* ------------------------------------------------------------------ *)
InitStores == InitGate \/ InitFlow

NextStores == NextGate \/ NextFlow

SpecStores == InitStores /\ [][NextStores]_vars

(* ------------------------------------------------------------------ *)
(* Calls of the pure functions: lib/match cosineDistance,              *)
(* FaceEnrollment's averageEmbeddings, lib/faceCrop normalizeBox       *)
(* ------------------------------------------------------------------ *)
MaxLen == 2
Components == {0 - 20, 0, 15, 20}

RECURSIVE SeqsUpTo(_)
SeqsUpTo(n) ==
  IF n = 0 THEN {<<>>}
  ELSE LET shorter == SeqsUpTo(n - 1)
       IN  shorter \cup {Append(v, c) : v \in {w \in shorter : Len(w) = n - 1},
                                        c \in Components}

\* the Float32Array arguments: every vector of up to MaxLen components
Vectors == SeqsUpTo(MaxLen)

AllZero(v) == \A i \in 1..Len(v) : v[i] = 0
EqualLengths(samples) == \A k \in 1..Len(samples) : Len(samples[k]) = Len(samples[1])

\* the call cosineDistance(a, b) as its caller sees it: an exception, or a value
distanceCall(a, b) ==
  LET r == cosineDistance(a, b)
  IN  [fn |-> "cosineDistance", a |-> a, b |-> b, threw |-> r.threw,
       value |-> IF r.threw THEN <<>> ELSE <<r.distance>>]

\* result[i] += vec[i] over the vectors up to the k-th: a vector without an
\* index i reads undefined there, and the sum is NaN from then on
RECURSIVE SumOrNaN(_, _, _)
SumOrNaN(vectors, i, k) ==
  IF k = 0 THEN Quot(0, 1)
  ELSE LET before == SumOrNaN(vectors, i, k - 1)
       IN  IF before.k = "nan" \/ i > Len(vectors[k]) THEN NaN
           ELSE Quot(before.n + vectors[k][i], 1)

\* averageEmbeddings of FaceEnrollment: the length of the first vector decides
\* the length of the result; reading vectors[0].length of an empty list throws
FaceEnrollment_averageEmbeddings(vectors) ==
  IF vectors = <<>> THEN [threw |-> TRUE, value |-> <<>>]
  ELSE LET length == Len(vectors[1])
           sum(i) == SumOrNaN(vectors, i, Len(vectors))
       IN  [threw |-> FALSE,
            value |-> <<[i \in 1..length |->
                          IF sum(i).k = "nan" THEN NaN
                          ELSE Quot(sum(i).n, Len(vectors))]>>]

averageCall(vectors) ==
  LET r == FaceEnrollment_averageEmbeddings(vectors)
  IN  [fn |-> "averageEmbeddings", samples |-> vectors, threw |-> r.threw,
       value |-> r.value]

\* ---- lib/faceCrop normalizeBox -------------------------------------
\* Pixel values are counted in 1/Scale of a pixel, so that sizes below one
\* pixel are among the inputs.
Scale == 1 + 1
MaxFrame == 2
Px(n) == Quot(n, Scale)
NegInf == [k |-> "ninf", n |-> 0, d |-> 1]
Max(a, b) == IF a > b THEN a ELSE b

\* Number.isFinite: false for NaN (also what an absent field converts to),
\* Infinity and -Infinity
isFinite(x) == x.k = "num"

\* a - b for a finite a
Minus(a, b) ==
  IF b.k = "nan" THEN NaN
  ELSE IF b.k = "inf" THEN NegInf
  ELSE IF b.k = "ninf" THEN Inf
  ELSE Px(a.n - b.n)

\* lines 26-38 with the clamp of the origin left out
normalizeAxisUnclamped(min, size, max, frame) ==
  LET s1 == IF ~isFinite(size) /\ isFinite(max) THEN Minus(max, min) ELSE size
      m == IF ~isFinite(min) THEN 0 ELSE min.n
      s == IF ~isFinite(s1) \/ s1.n <= 0 THEN 100 * Scale ELSE s1.n
      maxS == frame * Scale - m
  IN  [o |-> m, s |-> Max(Scale, Min(s, maxS))]

\* one axis of normalizeBox: lines 16, 18, 20-22, 26, 28, 30, 32, 37 for x and
\* lines 17, 19, 23-25, 27, 29, 31, 33, 38 for y
normalizeAxis(min, size, max, frame) ==
  LET s1 == IF ~isFinite(size) /\ isFinite(max) THEN Minus(max, min) ELSE size
      m == IF ~isFinite(min) THEN 0 ELSE min.n
      s == IF ~isFinite(s1) \/ s1.n <= 0 THEN 100 * Scale ELSE s1.n
      o == Max(0, Min(m, (frame - 1) * Scale))
      maxS == frame * Scale - o
  IN  [o |-> o, s |-> Max(Scale, Min(s, maxS))]

normalizeBox(box, frameHeight, frameWidth) ==
  LET ax == normalizeAxis(box.xMin, box.width, box.xMax, frameWidth)
      ay == normalizeAxis(box.yMin, box.height, box.yMax, frameHeight)
  IN  [x |-> ax.o, y |-> ay.o, w |-> ax.s, h |-> ay.s]

\* what a detector can put into a box field
Origins == {NaN, Inf, NegInf, Px(0 - 3), Px(1), Px(9)}
Sizes == {NaN, Inf, Px(0 - 2), Px(0), Px(1), Px(400)}
Corners == {NaN, Px(4)}
Boxes ==
  [xMin : Origins, yMin : Origins, width : Sizes, height : Sizes,
   xMax : Corners, yMax : Corners]

SampleLists ==
  {<<>>} \cup {<<v>> : v \in Vectors} \cup {<<v, w>> : v \in Vectors, w \in Vectors}

InitLib ==
  /\ component = "lib" /\ status = "none" /\ mounted = FALSE /\ videoAttached = FALSE
  /\ rafSet = FALSE /\ loop = "idle"
  /\ ev = Event("none", "none")
  /\ LivenessIdle /\ GateIdle /\ FlowIdle /\ StrictIdle /\ IdentityIdle
  /\ call = NoCall /\ LoadIdle /\ stream = "any"

libRest ==
  <<status, mounted, videoAttached, rafSet, loop, ev, livenessVars, gateVars, flowVars,
    strictVars, identityVars, loadVars, stream>>

CosineDistance(a, b) == call' = distanceCall(a, b) /\ UNCHANGED libRest

AverageEmbeddings(vectors) == call' = averageCall(vectors) /\ UNCHANGED libRest

NormalizeBox(box, frameHeight, frameWidth) ==
  /\ call' = [fn |-> "normalizeBox", box |-> box, frameHeight |-> frameHeight,
              frameWidth |-> frameWidth,
              value |-> normalizeBox(box, frameHeight, frameWidth)]
  /\ UNCHANGED libRest

\* one call is looked at per behaviour
NextLib ==
  \/ call = NoCall /\ \E a \in Vectors, b \in Vectors : CosineDistance(a, b)
  \/ call = NoCall /\ \E vectors \in SampleLists : AverageEmbeddings(vectors)
  \/ /\ call = NoCall
     /\ \E box \in Boxes, frameHeight \in 1..MaxFrame, frameWidth \in 1..MaxFrame :
          NormalizeBox(box, frameHeight, frameWidth)

SpecLib == InitLib /\ [][NextLib]_vars

(* ------------------------------------------------------------------ *)
(* FaceIdentity: one mounted instance, its effect runs and their run() *)
(* ------------------------------------------------------------------ *)
MaxEffects == 4

\* run() of an effect run: state "computing" until getEmbedding settles, then
\* "called", "dropped" or "error"; "skipped" for an effect run that returned
\* at the lastCompletedRunId test
IdentityRun(id, state) == [id |-> id, cancelled |-> FALSE, state |-> state]

\* the effect body up to run(): lines 98-102 and 122
effect(last, id) ==
  IF last = id THEN IdentityRun(id, "skipped") ELSE IdentityRun(id, "computing")

\* the cleanup the latest effect run returned (none when it skipped)
cleanup(rs) ==
  IF rs = <<>> \/ rs[Len(rs)].state = "skipped" THEN rs
  ELSE [rs EXCEPT ![Len(rs)].cancelled = TRUE]

\* run() after its await with the test of `cancelled` left out
settleIgnoringCancel(r, ok, last, st) ==
  IF ok THEN [run |-> [r EXCEPT !.state = "called"], last |-> r.id, status |-> "done",
              called |-> TRUE]
  ELSE [run |-> [r EXCEPT !.state = "error"], last |-> last, status |-> "error",
        called |-> FALSE]

\* run() after its await: lines 111-121
settle(r, ok, last, st) ==
  IF ok
  THEN IF ~r.cancelled
       THEN [run |-> [r EXCEPT !.state = "called"], last |-> r.id, status |-> "done",
             called |-> TRUE]
       ELSE [run |-> [r EXCEPT !.state = "dropped"], last |-> last, status |-> st,
             called |-> FALSE]
  ELSE [run |-> [r EXCEPT !.state = "error"], last |-> last,
        status |-> IF ~r.cancelled THEN "error" ELSE st, called |-> FALSE]

IdentityEvent(kind, i) == [kind |-> kind, run |-> i]

InitIdentity ==
  /\ component = "FaceIdentity" /\ status = "none" /\ mounted = FALSE
  /\ videoAttached = FALSE /\ rafSet = FALSE /\ loop = "idle"
  /\ ev = IdentityEvent("none", 0)
  /\ LivenessIdle /\ GateIdle /\ FlowIdle /\ StrictIdle /\ LibIdle /\ IdentityIdle

identityRest ==
  <<videoAttached, rafSet, loop, livenessVars, gateVars, flowVars, strictVars, libVars>>

\* the flow renders FaceIdentity with a runId it has not used before
\* (crypto.randomUUID() in handleCaptured); the effect runs once
IdentityMount ==
  /\ ~mounted /\ identityRunId < MaxRuns /\ Len(runs) < MaxEffects
  /\ mounted' = TRUE /\ identityRunId' = identityRunId + 1
  /\ runs' = Append(runs, effect(lastCompletedRunId, identityRunId'))
  /\ status' = IF runs'[Len(runs')].state = "skipped" THEN "loading" ELSE "capturing"
  /\ ev' = IdentityEvent("mount", Len(runs'))
  /\ UNCHANGED <<lastCompletedRunId, readyCalls, identityRest>>

\* Strict Mode's second effect run (or a changed dependency): the cleanup of
\* the latest effect run, then the effect again with the same runId
IdentityRemount ==
  /\ mounted /\ Len(runs) < MaxEffects
  /\ runs' = Append(cleanup(runs), effect(lastCompletedRunId, identityRunId))
  /\ status' = IF runs'[Len(runs')].state = "skipped" THEN status ELSE "capturing"
  /\ ev' = IdentityEvent("remount", Len(runs'))
  /\ UNCHANGED <<mounted, lastCompletedRunId, identityRunId, readyCalls, identityRest>>

\* the flow leaves the identity step: the cleanup of the latest effect run
IdentityUnmount ==
  /\ mounted
  /\ mounted' = FALSE /\ runs' = cleanup(runs)
  /\ ev' = IdentityEvent("unmount", Len(runs))
  /\ UNCHANGED <<status, lastCompletedRunId, identityRunId, readyCalls, identityRest>>

\* getEmbedding of the i-th run() resolves (ok) or rejects
IdentitySettle(i, ok) ==
  /\ i \in 1..Len(runs) /\ runs[i].state = "computing"
  /\ LET s == settle(runs[i], ok, lastCompletedRunId, status)
     IN  /\ runs' = [runs EXCEPT ![i] = s.run]
         /\ lastCompletedRunId' = s.last
         /\ status' = s.status
         /\ readyCalls' = IF s.called
                          THEN [readyCalls EXCEPT ![runs[i].id] = Min(@ + 1, 2)]
                          ELSE readyCalls
         /\ ev' = IdentityEvent(IF s.called THEN "ready" ELSE "settled", i)
  /\ UNCHANGED <<mounted, identityRunId, identityRest>>

NextIdentity ==
  \/ IdentityMount
  \/ IdentityRemount
  \/ IdentityUnmount
  \/ \E i \in 1..MaxEffects, ok \in BOOLEAN : IdentitySettle(i, ok)

SpecIdentity == InitIdentity /\ [][NextIdentity]_vars

(* ------------------------------------------------------------------ *)
(* The model loaders: loadFaceNet (lib/facenet) and loadEmbeddingModel *)
(* (lib/faceEmbedding), each called by up to MaxCallers callers        *)
(* ------------------------------------------------------------------ *)
\* modelPromise is "null", "pending", or settled: "model", or "none" for the
\* null a failed load resolves to. human is "null", "created" (the instance
\* exists, its load() has not completed) or "loaded".

\* loadFaceNet with the test of modelPromise left out
loadFaceNetAgain(promise) == [promise |-> "pending", started |-> TRUE]

\* loadFaceNet up to its return: lines 81-119
loadFaceNet(promise) ==
  IF promise = "null" THEN [promise |-> "pending", started |-> TRUE]
  ELSE [promise |-> promise, started |-> FALSE]

\* loadEmbeddingModel up to its return or its await: lines 13-28
loadEmbeddingModel(h) ==
  IF h # "null" THEN [human |-> h, returns |-> TRUE]
  ELSE [human |-> "created", returns |-> FALSE]

Caller(fn, state, got) == [fn |-> fn, state |-> state, got |-> got]
CanCall(c) == callers[c].state \in {"idle", "returned", "threw"}

InitLoad ==
  /\ component = "loaders" /\ status = "none" /\ mounted = FALSE
  /\ videoAttached = FALSE /\ rafSet = FALSE /\ loop = "idle"
  /\ ev = Event("none", "none")
  /\ LivenessIdle /\ GateIdle /\ FlowIdle /\ StrictIdle /\ LibIdle /\ IdentityIdle

loadRest ==
  <<status, mounted, videoAttached, rafSet, loop, ev, livenessVars, gateVars, flowVars,
    strictVars, identityVars, call, stream>>

\* caller c calls loadFaceNet and awaits the promise it returns
CallLoadFaceNet(c) ==
  /\ CanCall(c)
  /\ LET r == loadFaceNet(modelPromise)
     IN  /\ modelPromise' = r.promise
         /\ faceNetLoads' = IF r.started THEN Min(faceNetLoads + 1, 2) ELSE faceNetLoads
  /\ callers' = [callers EXCEPT ![c] = Caller("loadFaceNet", "waiting", "nothing")]
  /\ UNCHANGED <<human, loadRest>>

\* the load started at line 82 ends: with the model (line 111), or with null
\* after an exception (lines 112-116)
FaceNetSettles(ok) ==
  /\ modelPromise = "pending"
  /\ modelPromise' = IF ok THEN "model" ELSE "none"
  /\ UNCHANGED <<human, callers, faceNetLoads, loadRest>>

\* the promise caller c awaits has settled: the caller goes on with its value
LoadFaceNetReturns(c) ==
  /\ callers[c] = Caller("loadFaceNet", "waiting", "nothing")
  /\ modelPromise \in {"model", "none"}
  /\ callers' = [callers EXCEPT ![c] = Caller("loadFaceNet", "returned", modelPromise)]
  /\ UNCHANGED <<modelPromise, human, faceNetLoads, loadRest>>

\* caller c calls loadEmbeddingModel: it is handed the instance there is
\* (line 13), or creates one and awaits its load() (lines 15-28)
CallLoadEmbeddingModel(c) ==
  /\ CanCall(c)
  /\ LET r == loadEmbeddingModel(human)
     IN  /\ human' = r.human
         /\ callers' =
              [callers EXCEPT ![c] =
                 IF r.returns
                 THEN Caller("loadEmbeddingModel", "returned",
                             IF r.human = "loaded" THEN "loaded" ELSE "unloaded")
                 ELSE Caller("loadEmbeddingModel", "loading", "nothing")]
  /\ UNCHANGED <<modelPromise, faceNetLoads, loadRest>>

\* human.load() awaited by caller c resolves (lines 28-30) or rejects
HumanLoadSettles(c, ok) ==
  /\ callers[c] = Caller("loadEmbeddingModel", "loading", "nothing")
  /\ human' = IF ok THEN "loaded" ELSE human
  /\ callers' = [callers EXCEPT ![c] =
                   IF ok THEN Caller("loadEmbeddingModel", "returned", "loaded")
                   ELSE Caller("loadEmbeddingModel", "threw", "nothing")]
  /\ UNCHANGED <<modelPromise, faceNetLoads, loadRest>>

NextLoad ==
  \/ \E c \in 1..MaxCallers : CallLoadFaceNet(c)
  \/ \E ok \in BOOLEAN : FaceNetSettles(ok)
  \/ \E c \in 1..MaxCallers : LoadFaceNetReturns(c)
  \/ \E c \in 1..MaxCallers : CallLoadEmbeddingModel(c)
  \/ \E c \in 1..MaxCallers, ok \in BOOLEAN : HumanLoadSettles(c, ok)

SpecLoad == InitLoad /\ [][NextLoad]_vars

(* ------------------------------------------------------------------ *)
(* Properties of the liveness run                                      *)
(* ------------------------------------------------------------------ *)
\* the points the last processed frame was evaluated on
LastPoints == lastKeypoints[1]
FrameDone == ev.kind = "frame" /\ lastKeypoints # <<>>
HasOffset(points) ==
  valid({NOSE, LEFT_CHEEK, RIGHT_CHEEK}, points) /\ points.geo.right - points.geo.left > 0

\* C1: as long as no evaluated EAR reading was below the close threshold, the
\* blink is not confirmed and the challenge index is 0.
C1_NoDipNoBlink == ~sawBelowClose => (~blinkConfirmed /\ challengeIndex = 0)

\* frames with open eyes keep arriving, none dips: still at the blink challenge
C1_Witness ==
  /\ FrameDone /\ ev.active = "blink" /\ ev.evaluated /\ ev.reused
  /\ blinkPhase = 1 /\ hasSeenEyesOpen /\ ~sawBelowClose
  /\ Gt(Ear(LastPoints), BLINK_OPEN_THRESHOLD)

\* C2: the readings (the ratios checkBlink evaluates: positive or Infinity, of
\* a face close enough) have shown open, closed, open, with any readings
\* around them, exactly when the blink is confirmed; advance was then called exactly
\* once for the blink, and the frame that confirmed moved the index from 0 to 1.
C2_ExactlyOneBlink ==
  /\ blinkConfirmed <=> blinkPhase = 3
  /\ advanceCalls["blink"] = IF blinkPhase = 3 THEN 1 ELSE 0
  /\ blinkPhase = 3 => challengeIndex >= 1
  /\ (ev.advanced /\ ev.active = "blink") => challengeIndex = 1

\* after the blink, one more frame with open eyes was processed: nothing more
C2_Witness ==
  /\ FrameDone /\ ev.active = "turn_left" /\ ~ev.advanced
  /\ Gt(Ear(LastPoints), BLINK_OPEN_THRESHOLD) /\ ~faceTooFar
  /\ blinkPhase = 3 /\ challengeIndex = 1 /\ advanceCalls["blink"] = 1

\* C3: a dip before any open reading does not set the eyes-closed flag, and
\* an open reading after it does not confirm: the flags are set only in the
\* order seen-open, closed, confirmed.
C3_DipNeedsSeenOpen ==
  /\ eyeClosed => hasSeenEyesOpen
  /\ blinkConfirmed => eyeClosed
  /\ blinkPhase = 0 => (~hasSeenEyesOpen /\ ~eyeClosed)
  /\ (sawBelowClose /\ blinkPhase <= 1) => (~eyeClosed /\ ~blinkConfirmed)

\* a dip came first, then an open reading: no eyes-closed flag, no blink
C3_Witness ==
  /\ FrameDone /\ ev.active = "blink" /\ ev.evaluated
  /\ Gt(Ear(LastPoints), BLINK_OPEN_THRESHOLD)
  /\ sawBelowClose /\ blinkPhase = 1 /\ hasSeenEyesOpen /\ ~eyeClosed /\ ~blinkConfirmed

\* C4: a turn challenge advances only on an evaluated turned frame that
\* completes TURN_HOLD_FRAMES turned frames in a row, and the hold counter
\* never exceeds the number of turned frames in a row.
C4_TurnNeedsHold ==
  /\ (ev.advanced /\ ev.active \in Turns) =>
        (ev.evaluated /\ ev.turned /\ ev.run = TURN_HOLD_FRAMES)
  /\ turnHoldFrames <= zoneRun

C4_Witness ==
  /\ FrameDone /\ ev.active = "turn_left" /\ ev.advanced
  /\ ev.run = TURN_HOLD_FRAMES /\ ev.holdBefore = TURN_HOLD_FRAMES - 1
  /\ challengeIndex = 2

\* C5 as stated: every frame of a turn challenge with a detected face whose
\* offset is outside the turned zone leaves the hold counter at zero.
C5_AnyNeutralFrameResets ==
  (FrameDone /\ ev.active \in Turns /\ HasOffset(LastPoints)
     /\ ~InTurnedZone(ev.active, LastPoints.geo)) => turnHoldFrames = 0

\* C5 amended: every evaluated frame (face close enough) of a turn challenge
\* whose offset is outside the turned zone leaves the hold counter at zero.
C5_EvaluatedNeutralResets ==
  (FrameDone /\ ev.active \in Turns /\ HasOffset(LastPoints) /\ ~faceTooFar
     /\ ~InTurnedZone(ev.active, LastPoints.geo)) => turnHoldFrames = 0

\* TURN_HOLD_FRAMES - 1 held frames, then one neutral frame: nothing held
C5_Witness ==
  /\ FrameDone /\ ev.active \in Turns /\ ev.evaluated /\ ~ev.turned
  /\ ev.holdBefore = TURN_HOLD_FRAMES - 1 /\ turnHoldFrames = 0

\* C6: a frame with no face, or with fewer than 380 keypoints, leaves index,
\* blink flags and hold counter as they were, calls neither advance nor
\* onPassed, and does not change the status (so not to "error").
C6_NoFaceNoChange ==
  [][ev'.kind \in {"noface", "short"} =>
       /\ UNCHANGED <<challengeIndex, hasSeenEyesOpen, eyeClosed, blinkConfirmed,
                      turnHoldFrames, advanceCalls, onPassedCalls, status>>
       /\ status' # "error"]_vars

\* the face was lost in the middle of a held turn: the held frames are kept
C6_Witness ==
  /\ ev.kind \in {"noface", "short"} /\ ev.active = "turn_right"
  /\ turnHoldFrames = TURN_HOLD_FRAMES - 1 /\ status = "challenge"

\* C7: a step leaves the index unchanged or increases it by one, and it
\* increases it only on a frame that completed the challenge the fixed list
\* holds at the old index.
C7_IndexInListOrder ==
  [][\/ challengeIndex' = challengeIndex
     \/ /\ challengeIndex' = challengeIndex + 1
        /\ challengeIndex < Len(CHALLENGES)
        /\ ev'.advanced
        /\ ev'.active = CHALLENGES[challengeIndex + 1]]_vars

C7_Witness ==
  /\ ev.advanced /\ ev.active = "turn_left" /\ challengeIndex = 2
  /\ advanceCalls = [c \in {"blink"} \cup Turns |-> IF c = "turn_right" THEN 0 ELSE 1]

\* C8: the status is passed exactly when the index equals the number of
\* challenges; advance was then called exactly once per challenge and
\* onPassed exactly once, and the index never goes beyond.
C8_PassedOnce ==
  /\ challengeIndex <= Len(CHALLENGES)
  /\ status = "passed" <=> challengeIndex = Len(CHALLENGES)
  /\ onPassedCalls = IF status = "passed" THEN 1 ELSE 0
  /\ status = "passed" => \A c \in DOMAIN advanceCalls : advanceCalls[c] = 1

\* after passing, a frame turned toward a zone was still processed
C8_Witness ==
  /\ status = "passed" /\ FrameDone /\ ev.active = "undefined"
  /\ ~faceTooFar /\ HasOffset(LastPoints) /\ noseTowardImageLeft(LastPoints.geo)
  /\ challengeIndex = Len(CHALLENGES) /\ onPassedCalls = 1

\* C9: when estimateFaces throws, the status becomes error and no further
\* frame is scheduled.
C9_DetectorErrorFails ==
  ev.kind = "throw" => (status = "error" /\ loop # "scheduled")

\* what a detect() call that got past its await leaves in ev
FrameKinds == {"frame", "noface", "short", "throw", "crash"}

\* C13: once the effect cleanup has run, no frame is processed and no
\* animation frame is requested, also when the cleanup ran during the await
\* of estimateFaces.
C13_StopIsFinal ==
  ~mounted => (ev.kind \notin FrameKinds /\ loop # "scheduled")

\* the detect loops that have a frame pending
Driving == {i \in DOMAIN loops : loops[i] = "scheduled"}

\* C15: at most one detect loop has a frame pending on the liveness refs of
\* the instance, whatever the order of the Strict Mode cleanup and second
\* effect run and of the awaits of the two setup() calls.
C15_OneLoop == Cardinality(Driving) <= 1

(* ------------------------------------------------------------------ *)
(* Properties of the capture gate                                      *)
(* ------------------------------------------------------------------ *)
\* C10: the gate fires only on a frame that ends REQUIRED_FRAMES present
\* frames in a row; an absent frame leaves the counter at zero; and of the
\* frames 89 present, 1 absent, 90 present only the last one fires.
C10_GateNeedsFullRun ==
  /\ ev.kind = "fire" => presentRun >= REQUIRED_FRAMES
  /\ ev.kind = "absent" => stableFrames = 0
  /\ (script >= 0 /\ script < ScriptLen) => fires = 0
  /\ script = ScriptLen => fires <= 1
  /\ (script = ScriptLen /\ mounted) => fires = 1

C10_Witness ==
  /\ script = ScriptLen /\ ev.kind = "fire" /\ fires = 1
  /\ presentRun = REQUIRED_FRAMES

\* C11: in FaceEnrollment a frame fires the gate only when the counter has just
\* reached REQUIRED_FRAMES; no frame is processed while the sample is taken;
\* the counter is zero once the sample is in; so a fire that follows a captured
\* sample has seen REQUIRED_FRAMES present frames since that sample.
C11_SamplesApart ==
  component = "FaceEnrollment" =>
    /\ ev.kind = "fire" => (stableFrames = REQUIRED_FRAMES /\ loop = "capturing")
    /\ ev.kind = "captured" => (stableFrames = 0 /\ sinceSample = 0)
    /\ stableFrames <= sinceSample
    /\ (ev.kind = "fire" /\ Len(embeddings) >= 1) => sinceSample >= REQUIRED_FRAMES

\* the gate fires for the second sample
C11_Witness ==
  /\ component = "FaceEnrollment" /\ ev.kind = "fire" /\ Len(embeddings) = 1
  /\ fires = 2 /\ sinceSample = REQUIRED_FRAMES

\* C12: the accumulator of FaceEnrollment never holds more than
\* REQUIRED_SAMPLES embeddings, and that of FaceAuthFlow never more than
\* ENROLLMENT_SAMPLES.
C12_AccumulatorBounded ==
  /\ Len(embeddings) <= REQUIRED_SAMPLES
  /\ Len(enrollmentSamples) <= ENROLLMENT_SAMPLES

(* ------------------------------------------------------------------ *)
(* Properties of the samples and the template                          *)
(* ------------------------------------------------------------------ *)
IsPrefix(a, b) == Len(a) <= Len(b) /\ SubSeq(b, 1, Len(a)) = a

\* C14: a step that removes a sample from an accumulator is the completion of
\* the enrollment or Enroll again; a step that removes or replaces a stored
\* template is Enroll again; the effect cleanup and Verify again leave the
\* accumulators and the template as they are.
C14_OnlyResetRemoves ==
  [][/\ IsPrefix(embeddings, embeddings')
     /\ ~IsPrefix(enrollmentSamples, enrollmentSamples') =>
          \/ ev'.kind = "enroll_again"
          \/ ev'.kind = "embedding" /\ doneResult' = "enrolled"
     /\ (storedEmbedding # <<>> /\ storedEmbedding' # storedEmbedding) =>
          ev'.kind = "enroll_again"
     /\ ev'.kind \in {"unmount", "verify_again"} =>
          UNCHANGED <<embeddings, enrollmentSamples, storedEmbedding>>]_vars

\* FaceEnrollment was unmounted with two samples taken: they are still there
C14_Witness ==
  /\ component = "FaceEnrollment" /\ ev.kind = "unmount" /\ ~mounted
  /\ Len(embeddings) = 2

\* C16: the done step shows "Identity verified" only for a run that started
\* with a stored template and computed a distance below MATCH_THRESHOLD; a
\* run whose distance is at or above it ends with "Identity not verified".
C16_VerifiedOnlyBelowThreshold ==
  /\ Shown = "Identity verified" =>
       /\ flowRun.stored # <<>>
       /\ flowRun.distance # <<>>
       /\ flowRun.distance[1] < MATCH_THRESHOLD
  /\ (step = "done" /\ flowRun.distance # <<>>
        /\ flowRun.distance[1] >= MATCH_THRESHOLD) =>
       Shown = "Identity not verified"

\* C17: a step that sets the stored template is the delivery of the
\* ENROLLMENT_SAMPLES-th embedding since the last reset, the template is the
\* aggregate of these samples, and "Identity enrolled" appears in that step
\* and in no other.
C17_TemplateFromFullSet ==
  [][/\ (storedEmbedding' # storedEmbedding /\ storedEmbedding' # <<>>) =>
          /\ ev'.kind = "embedding"
          /\ flowRun'.embeddings = ENROLLMENT_SAMPLES
          /\ Len(enrollmentSamples) = ENROLLMENT_SAMPLES - 1
          /\ storedEmbedding'[1] =
               averageEmbeddings(Append(enrollmentSamples, normalize(ev'.embedding)))
          /\ Shown' = "Identity enrolled"
     /\ (Shown' = "Identity enrolled" /\ Shown # "Identity enrolled") =>
          (storedEmbedding' # storedEmbedding /\ storedEmbedding' # <<>>)]_vars

\* C18: a run that starts with a stored template keeps the template and the
\* accumulator as they were at its start, takes at most one captured sample
\* and computes at most one distance; when it is done it has taken exactly
\* one sample, computed exactly one distance against the template, and its
\* result is match or no_match.
C18_VerifyTakesOneSample ==
  flowRun.stored # <<>> =>
    /\ storedEmbedding = flowRun.stored
    /\ enrollmentSamples = flowRun.samples
    /\ flowRun.captures <= 1 /\ flowRun.embeddings <= 1 /\ flowRun.distances <= 1
    /\ step = "done" =>
         /\ flowRun.captures = 1 /\ flowRun.embeddings = 1 /\ flowRun.distances = 1
         /\ doneResult \in {"match", "no_match"}
         /\ lastDistance = flowRun.distance
         /\ ev.kind = "embedding"
         /\ flowRun.distance =
              <<cosineDistance(flowRun.stored[1], normalize(ev.embedding)).distance>>

\* a verification against the template <<25, 0, 0, 0>> ended at distance 0.32
C18_Witness ==
  /\ step = "done" /\ flowRun.stored = <<(<<25, 0, 0, 0>>)>>
  /\ ev.kind = "embedding" /\ ev.branch = "verify"
  /\ lastDistance = <<MATCH_THRESHOLD>> /\ doneResult = "no_match"
  /\ storedEmbedding = flowRun.stored /\ flowRun.captures = 1

\* C19: FaceAuthFlow takes no mode from its caller, so what a run is given is
\* the embedding handed to handleEmbeddingReady: a call with the argument of
\* the first call takes the branch (enroll or verify) the first call took,
\* whatever storedEmbeddingRef holds by then.
C19_BranchFromCallerInputs ==
  (ev.kind = "embedding" /\ firstCall # <<>>
     /\ ev.embedding = firstCall[1].embedding) =>
    ev.branch = firstCall[1].branch

\* C20: whenever the flow is at capture, identity or done, the FaceLiveness
\* of the liveness step and then that of the challenge step have called
\* onPassed since the flow last entered "liveness" (at the start, on Verify
\* again or on Enroll again).
C20_ChallengesBeforeCapture ==
  /\ step \in {"capture", "identity", "done"} => (flowRun.liveness /\ flowRun.challenge)
  /\ flowRun.challenge => flowRun.liveness
  /\ step = "liveness" => (~flowRun.liveness /\ ~flowRun.challenge)
  /\ step = "challenge" => ~flowRun.challenge

\* a run started by Verify again went through both steps and ended in a match
C20_Witness ==
  /\ step = "done" /\ doneResult = "match" /\ flowRun.stored # <<>>
  /\ flowRun.liveness /\ flowRun.challenge /\ flowRun.captures = 1

(* ------------------------------------------------------------------ *)
(* Properties of the pure functions                                    *)
(* ------------------------------------------------------------------ *)
\* C21: a call of cosineDistance with vectors of different lengths throws,
\* and the caller gets no distance.
C21_MismatchThrows ==
  (call.fn = "cosineDistance" /\ Len(call.a) # Len(call.b)) =>
    (call.threw /\ call.value = <<>>)

\* a one-component vector was compared with a two-component vector that
\* agrees with it on the first component
C21_Witness ==
  /\ call.fn = "cosineDistance" /\ call.a = <<20>> /\ call.b = <<20, 15>>
  /\ call.threw

\* C22: a call of averageEmbeddings with samples that are not all of the same
\* length throws.
C22_UnequalSamplesFail ==
  (call.fn = "averageEmbeddings" /\ ~EqualLengths(call.samples)) => call.threw

\* C23: a call of cosineDistance with two empty vectors throws.
C23_EmptySignals ==
  (call.fn = "cosineDistance" /\ call.a = <<>> /\ call.b = <<>>) => call.threw

\* C24: for vectors of equal length of which one is all zero, cosineDistance
\* returns 1 (100 hundredths), which isMatch does not take as a match.
C24_ZeroNormIsOne ==
  (/\ call.fn = "cosineDistance" /\ Len(call.a) = Len(call.b)
   /\ (AllZero(call.a) \/ AllZero(call.b))) =>
    (/\ ~call.threw /\ call.value = <<100>>
     /\ \A threshold \in 0..100 : ~(call.value[1] < threshold))

\* a zero template was compared with a non-zero vector of its length
C24_Witness ==
  /\ call.fn = "cosineDistance" /\ call.a = <<0, 0>> /\ call.b = <<15, 20>>
  /\ call.value = <<100>>

\* C25: whatever the box fields are, the box normalizeBox returns lies in the
\* frame: 0 <= x <= frameWidth - 1, 0 <= y <= frameHeight - 1, w >= 1, h >= 1,
\* x + w <= frameWidth and y + h <= frameHeight.
C25_BoxInFrame ==
  call.fn = "normalizeBox" =>
    LET v == call.value
    IN  /\ 0 <= v.x /\ v.x <= (call.frameWidth - 1) * Scale
        /\ 0 <= v.y /\ v.y <= (call.frameHeight - 1) * Scale
        /\ v.w >= Scale /\ v.h >= Scale
        /\ v.x + v.w <= call.frameWidth * Scale
        /\ v.y + v.h <= call.frameHeight * Scale

\* a box with an infinite origin and no width on one axis, and an origin
\* beyond the frame and half a pixel of height on the other, was normalized
C25_Witness ==
  /\ call.fn = "normalizeBox"
  /\ call.box.xMin = Inf /\ call.box.width = NaN /\ call.box.xMax = Px(4)
  /\ call.box.yMin = Px(9) /\ call.box.height = Px(1)
  /\ call.frameWidth = 1 /\ call.frameHeight = 2
  /\ call.value = [x |-> 0, y |-> Scale, w |-> Scale, h |-> Scale]

(* ------------------------------------------------------------------ *)
(* Properties of undefined readings, errors and stopping               *)
(* ------------------------------------------------------------------ *)
\* an eye whose horizontal distance is zero: its ratio is 0/0 or x/0
UndefinedEar(points) == points.le.h = 0 \/ points.re.h = 0

\* C26: a blink frame on which an eye's horizontal distance is zero leaves
\* the three blink flags and the challenge index as they were.
C26_UndefinedEarDiscarded ==
  [][(/\ ev'.kind = "frame" /\ ev'.active = "blink" /\ lastKeypoints' # <<>>
      /\ UndefinedEar(lastKeypoints'[1])) =>
       UNCHANGED <<hasSeenEyesOpen, eyeClosed, blinkConfirmed, challengeIndex>>]_vars

\* C27: once the embedding model has failed in the identity step, the flow is
\* no longer waiting in the capture or the identity step.
C27_ErrorsReachTheFlow == identity = "error" => step \notin {"capture", "identity"}

\* C28: once the status is "passed", no animation frame is requested and no
\* detect call is pending or running.
C28_StoppedAfterPassed ==
  status = "passed" => (~rafSet /\ loop \notin {"scheduled", "awaiting"})

\* C29: once FaceEnrollment holds REQUIRED_SAMPLES embeddings, no animation
\* frame is requested, no detect call is pending or running, it holds exactly
\* REQUIRED_SAMPLES embeddings, and onComplete was called exactly once.
C29_FinalizeOnce ==
  (component = "FaceEnrollment" /\ Len(embeddings) >= REQUIRED_SAMPLES) =>
    /\ ~rafSet /\ loop \notin {"scheduled", "awaiting", "capturing"}
    /\ Len(embeddings) = REQUIRED_SAMPLES
    /\ onCompleteCalls = 1

\* C30: FaceIdentity has called onEmbeddingReady at most once for each runId.
C30_ReadyOncePerRun == \A r \in 1..MaxRuns : readyCalls[r] <= 1

\* Strict Mode: the first effect run was cleaned up and its run() dropped its
\* embedding, the second run() of the same runId made the call
C30_Witness ==
  /\ Len(runs) >= 2 /\ runs[1].id = 1 /\ runs[2].id = 1
  /\ runs[1].cancelled /\ runs[1].state = "dropped" /\ runs[2].state = "called"
  /\ readyCalls[1] = 1

(* ------------------------------------------------------------------ *)
(* Properties of the model loaders                                     *)
(* ------------------------------------------------------------------ *)
\* C31: whatever the callers of loadFaceNet do, the load of the model is
\* started at most once, and a caller that got a value got what that load
\* ended with.
C31_LoadedOnce ==
  /\ faceNetLoads <= 1
  /\ \A c \in 1..MaxCallers :
       (callers[c].fn = "loadFaceNet" /\ callers[c].state = "returned") =>
         (modelPromise \in {"model", "none"} /\ callers[c].got = modelPromise)

\* two callers called while the load was pending and both got the model
C31_Witness ==
  /\ faceNetLoads = 1 /\ modelPromise = "model"
  /\ \A c \in 1..2 : callers[c] = Caller("loadFaceNet", "returned", "model")

\* C39: a caller of loadEmbeddingModel that was handed the instance was
\* handed it after its load() had completed.
C39_HandedLoaded ==
  \A c \in 1..MaxCallers :
    (callers[c].fn = "loadEmbeddingModel" /\ callers[c].state = "returned") =>
      callers[c].got = "loaded"

(* ------------------------------------------------------------------ *)
(* Properties of the turn zones, the hold counter and the blink flags  *)
(* ------------------------------------------------------------------ *)
\* the frame just processed is one on which checkTurn reached its zone tests
TurnFrameDone ==
  ev.kind = "frame" /\ ev.active \in Turns /\ ev.evaluated /\ lastKeypoints # <<>>

\* the offset (nose - left) / width against p/100
OffsetAtLeast(g, p) == 100 * (g.nose - g.left) >= p * (g.right - g.left)
OffsetAtMost(g, p) == 100 * (g.nose - g.left) <= p * (g.right - g.left)

\* the frame counted toward the active turn: the hold counter went up by one,
\* or it reached TURN_HOLD_FRAMES and advance was called
CountedAsTurned == ev.advanced \/ turnHoldFrames = ev.holdBefore + 1

\* C32: no offset lies in both zones; an offset from 0.30 to 0.70 inclusive
\* does not count toward the active turn; and a frame turned the other way
\* (offset below 0.30 for turn_left, above 0.70 for turn_right) leaves the
\* hold counter at zero.
C32_ZonesDisjointWithBand ==
  TurnFrameDone =>
    LET g == LastPoints.geo
    IN  /\ ~(noseTowardImageLeft(g) /\ noseTowardImageRight(g))
        /\ (OffsetAtLeast(g, 30) /\ OffsetAtMost(g, 70)) => ~CountedAsTurned
        /\ (\/ ev.active = "turn_left" /\ ~OffsetAtLeast(g, 30)
            \/ ev.active = "turn_right" /\ ~OffsetAtMost(g, 70)) =>
             (turnHoldFrames = 0 /\ ~ev.advanced)

\* C33: a turn frame on which the face is flagged too far, or on which the
\* cheek width is zero or negative, leaves the hold counter and the challenge
\* index as they were and calls advance for no challenge; a blink frame on
\* which the face is flagged too far leaves the three blink flags and the
\* index as they were.
C33_NoSignalNoChange ==
  [][(ev'.kind = "frame" /\ lastKeypoints' # <<>>) =>
       LET g == lastKeypoints'[1].geo
       IN  /\ (ev'.active \in Turns /\ (faceTooFar' \/ g.right - g.left <= 0)) =>
                UNCHANGED <<turnHoldFrames, challengeIndex, advanceCalls>>
           /\ (ev'.active = "blink" /\ faceTooFar') =>
                UNCHANGED <<hasSeenEyesOpen, eyeClosed, blinkConfirmed, challengeIndex,
                            advanceCalls>>]_vars

\* a frame turned the right way but too far away came in the middle of a held
\* turn: the frames held so far are still counted
C33_Witness ==
  /\ ev.kind = "frame" /\ ev.active = "turn_left" /\ faceTooFar
  /\ lastKeypoints # <<>> /\ noseTowardImageRight(LastPoints.geo)
  /\ ev.holdBefore = TURN_HOLD_FRAMES - 1 /\ turnHoldFrames = TURN_HOLD_FRAMES - 1
  /\ challengeIndex = 1

\* an EAR from the close threshold to the open threshold, both included
InBand(ear) ==
  ear.k = "num" /\ ~Lt(ear, BLINK_CLOSE_THRESHOLD) /\ ~Gt(ear, BLINK_OPEN_THRESHOLD)

\* C34: a blink frame whose EAR reading lies in the band from 0.22 to 0.26
\* leaves the three blink flags and the challenge index as they were and
\* calls advance for no challenge.
C34_BandChangesNothing ==
  [][(/\ ev'.kind = "frame" /\ ev'.active = "blink" /\ ev'.evaluated
      /\ lastKeypoints' # <<>> /\ InBand(Ear(lastKeypoints'[1]))) =>
       UNCHANGED <<hasSeenEyesOpen, eyeClosed, blinkConfirmed, challengeIndex,
                   advanceCalls>>]_vars

\* a reading of 0.24 came after the eyes were seen open: they do not count as
\* closed
C34_Witness ==
  /\ ev.kind = "frame" /\ ev.active = "blink" /\ ev.evaluated /\ lastKeypoints # <<>>
  /\ Ear(LastPoints) = Mean2(eyeAspectRatio(EyeMid), eyeAspectRatio(EyeMid))
  /\ InBand(Ear(LastPoints))
  /\ hasSeenEyesOpen /\ ~eyeClosed /\ ~blinkConfirmed /\ challengeIndex = 0

\* C35: after every step the hold counter is at least 0 and below
\* TURN_HOLD_FRAMES, and it is 0 after a frame that changed the active
\* challenge.
C35_HoldBelowLimit ==
  /\ turnHoldFrames \in 0..(TURN_HOLD_FRAMES - 1)
  /\ ev.advanced => turnHoldFrames = 0

\* the last held frame of turn_left changed the challenge to turn_right, and
\* the counter starts again from 0
C35_Witness ==
  /\ ev.kind = "frame" /\ ev.advanced /\ ev.active = "turn_left"
  /\ ActiveOf(challengeIndex) = "turn_right" /\ turnHoldFrames = 0
  /\ ev.holdBefore = TURN_HOLD_FRAMES - 1

\* C36: eyes-closed implies seen-open, blink-confirmed implies eyes-closed,
\* and blink-confirmed holds exactly when the challenge index is at least 1.
C36_FlagsOrdered ==
  /\ eyeClosed => hasSeenEyesOpen
  /\ blinkConfirmed => eyeClosed
  /\ blinkConfirmed <=> challengeIndex >= 1

\* the blink was confirmed and the run has passed on to the first turn
C36_Witness ==
  /\ hasSeenEyesOpen /\ eyeClosed /\ blinkConfirmed /\ challengeIndex = 1
  /\ ev.kind = "frame" /\ ev.active = "blink" /\ ev.advanced

\* C37: no frame with at least MIN_KEYPOINTS keypoints makes a check throw
\* and the frame loop end.
C37_UsableFramesEvaluate ==
  ~(/\ ev.kind = "crash" /\ lastKeypoints # <<>>
    /\ LastPoints.kp >= MIN_KEYPOINTS /\ loop = "crashed")

\* C38: a frame that reuses the last keypoints is evaluated as a blink frame
\* while the challenge is blink, and every step that raises the turn hold
\* counter is a frame evaluated on a fresh detector result.
C38_ReuseOnlyInBlink ==
  [][/\ ev'.reused => (ev'.active = "blink" /\ ActiveOf(challengeIndex) = "blink"
                        /\ ~ev'.turned)
     /\ turnHoldFrames' > turnHoldFrames =>
          (ev'.kind = "frame" /\ ~ev'.reused /\ ev'.active \in Turns)]_vars

\* a frame of the blink challenge evaluated on the reused keypoints of a
\* closed-eye frame: the hold counter stays at 0
C38_Witness ==
  /\ ev.kind = "frame" /\ ev.reused /\ ev.evaluated /\ ev.active = "blink"
  /\ eyeClosed /\ ~blinkConfirmed /\ turnHoldFrames = 0

(* ------------------------------------------------------------------ *)
(* FaceLiveness: progress under a cooperative frame stream             *)
(* ------------------------------------------------------------------ *)
\* the reading the blink challenge is waiting for: an open eye first, then a
\* closed one, then an open one again
NeededEyes ==
  IF hasSeenEyesOpen /\ ~eyeClosed THEN <<EyeClosed, EyeClosed>>
  ELSE <<EyeOpen, EyeOpen>>

\* the head position the challenge captured by the suspended detect() needs
NeededGeo ==
  IF active = "turn_left" THEN Geo(80, 0, 100)
  ELSE IF active = "turn_right" THEN Geo(20, 0, 100)
  ELSE GeoNeutral

\* estimateFaces returns a complete, close-enough face with that reading
NeededResult ==
  [err |-> FALSE, faces |-> <<Frame(468, NeededEyes, NeededGeo, WidthNear)>>]

DeliverNeeded == DetectResume(NeededResult)

streamRest ==
  <<status, mounted, videoAttached, rafSet, loop, ev, livenessVars, gateVars, flowVars,
    strictVars, identityVars, loadVars, call>>

\* from this step on the video is ready at every frame and every detector
\* result is the reading the challenge is waiting for
StreamSettles ==
  /\ component = "FaceLiveness" /\ stream = "any"
  /\ stream' = "needed"
  /\ UNCHANGED streamRest

NextProgress ==
  \/ SetupDone
  \/ SetupFail
  \/ Unmount
  \/ StreamSettles
  \/ \E ready \in BOOLEAN : (stream = "needed" => ready) /\ DetectBegin(ready)
  \/ stream = "any" /\ \E r \in DetectorResults : DetectResume(r)
  \/ stream = "needed" /\ DeliverNeeded

\* requestAnimationFrame runs every requested callback and estimateFaces
\* settles; the stream becomes the cooperative one at some point
StreamDelivers ==
  /\ WF_vars(StreamSettles)
  /\ WF_vars(DetectBegin(TRUE))
  /\ WF_vars(stream = "needed" /\ DeliverNeeded)

SpecProgress == InitLiveness /\ [][NextProgress]_vars /\ StreamDelivers

Running == mounted /\ status = "challenge"

\* C40: a mounted run in a challenge, fed the readings it needs, reaches
\* passed (or is unmounted first).
C40_EventuallyPassed == Running ~> (status = "passed" \/ ~mounted)

\* the same, allowing for the frame loop ended by a throwing turn check
ProgressUnlessCrashed ==
  Running ~> (status = "passed" \/ ~mounted \/ loop = "crashed")

====
